---- MODULE Spec2Model ----
(***************************************************************************)
(* Quiz-Master: the ingestion worker (sqliteService workerCode), the merge *)
(* request/response protocol (processAndMergeDatabases) and the answer and *)
(* choice normalisers, modelled from the source.                           *)
(*                                                                         *)
(* A JavaScript string is a sequence of one-character strings, so that     *)
(* trimming, regular expressions, case folding and concatenation are       *)
(* computed character by character as the code computes them.  A null or   *)
(* undefined cell is the empty sequence where the code passes it through   *)
(* normalize / cleanAnswer (both map null and "" to ""), and the value     *)
(* Undefined where the code tests it.                                      *)
(***************************************************************************)
EXTENDS Integers, Sequences, FiniteSets, TLC

----------------------------------------------------------------------------
(* Bounds of the model *)

\* number of processAndMergeDatabases calls a behaviour makes
MaxCalls == 2
\* longest source list of one call
MaxSources == 2
\* longest raw answer body drawn for the answer normaliser
MaxBody == 2

----------------------------------------------------------------------------
(* Characters and strings *)

Lowers == <<"a","b","c","d","e","f","g","h","i","j","k","l","m","n","o","p","q","r","s","t","u","v","w","x","y","z">>
Uppers == <<"A","B","C","D","E","F","G","H","I","J","K","L","M","N","O","P","Q","R","S","T","U","V","W","X","Y","Z">>
Digits == <<"0","1","2","3","4","5","6","7","8","9">>
\* the characters matched by \s and removed by String.prototype.trim
Whitespace == {" ", "\t", "\n", "\r"}

IndexIn(c, seq) ==
  IF \E i \in 1..Len(seq) : seq[i] = c
    THEN CHOOSE i \in 1..Len(seq) : seq[i] = c /\ \A j \in 1..(i-1) : seq[j] # c
    ELSE 0

Range(seq) == { seq[i] : i \in 1..Len(seq) }

SetMin(S) == CHOOSE x \in S : \A y \in S : x <= y
SetMax(S) == CHOOSE x \in S : \A y \in S : x >= y

UpperChar(c) == IF IndexIn(c, Lowers) > 0 THEN Uppers[IndexIn(c, Lowers)] ELSE c
LowerChar(c) == IF IndexIn(c, Uppers) > 0 THEN Lowers[IndexIn(c, Uppers)] ELSE c
IsDigit(c) == IndexIn(c, Digits) > 0
IsLetter(c) == IndexIn(c, Lowers) > 0 \/ IndexIn(c, Uppers) > 0

toUpperCase(s) == IF s = <<>> THEN <<>> ELSE [i \in 1..Len(s) |-> UpperChar(s[i])]
toLowerCase(s) == IF s = <<>> THEN <<>> ELSE [i \in 1..Len(s) |-> LowerChar(s[i])]

trim(s) ==
  LET keep == {i \in 1..Len(s) : s[i] \notin Whitespace}
  IN  IF keep = {} THEN <<>> ELSE SubSeq(s, SetMin(keep), SetMax(keep))

\* s.includes(sub)
includes(s, sub) ==
  \E i \in 1..(Len(s) - Len(sub) + 1) : SubSeq(s, i, i + Len(sub) - 1) = sub

\* case-insensitive s.startsWith(p)
StartsWithI(s, p) ==
  Len(s) >= Len(p) /\ toLowerCase(SubSeq(s, 1, Len(p))) = toLowerCase(p)

AllDigits(s) == Len(s) > 0 /\ \A i \in 1..Len(s) : IsDigit(s[i])

\* parseInt(s, 10) of a string of digits
RECURSIVE parseInt(_)
parseInt(s) ==
  IF s = <<>> THEN 0
  ELSE 10 * parseInt(SubSeq(s, 1, Len(s) - 1)) + (IndexIn(s[Len(s)], Digits) - 1)

\* String.fromCharCode(64 + num) for 1 <= num <= 26
fromCharCode64(num) == <<Uppers[num]>>

\* the value of an absent column name (findCol found no alias)
Undefined == <<"undefined">>

\* const normalize = (str) => (str === null || str === undefined) ? "" : String(str).trim()
normalize(str) == IF str = Undefined THEN <<>> ELSE trim(str)

----------------------------------------------------------------------------
(* Answer / choice normaliser of the worker *)

\* the three prefixes of /^(?:Option[:\s]*|Answer[:\s]*|The answer is[:\s]*)/i
AnswerPrefixes == << <<"O","p","t","i","o","n">>, <<"A","n","s","w","e","r">>, <<"T","h","e"," ","a","n","s","w","e","r"," ","i","s">> >>

\* length of the longest prefix of s made of ':' and whitespace ( [:\s]* is greedy )
RECURSIVE ColonSpaceRun(_)
ColonSpaceRun(s) ==
  IF s # <<>> /\ (s[1] = ":" \/ s[1] \in Whitespace)
    THEN 1 + ColonSpaceRun(Tail(s))
    ELSE 0

\* str.replace(/^(?:Option[:\s]*|Answer[:\s]*|The answer is[:\s]*)/i, '')
StripAnswerPrefix(s) ==
  IF \E k \in 1..Len(AnswerPrefixes) : StartsWithI(s, AnswerPrefixes[k])
    THEN LET k == CHOOSE k \in 1..Len(AnswerPrefixes) :
                    /\ StartsWithI(s, AnswerPrefixes[k])
                    /\ \A j \in 1..(k-1) : ~StartsWithI(s, AnswerPrefixes[j])
             rest == SubSeq(s, Len(AnswerPrefixes[k]) + 1, Len(s))
         IN  SubSeq(rest, ColonSpaceRun(rest) + 1, Len(rest))
    ELSE s

\* StripTrailingDot that knows the dot only
StripTrailingDotOnly(s) ==
  IF s # <<>> /\ s[Len(s)] = "." THEN SubSeq(s, 1, Len(s) - 1) ELSE s

\* str.replace(/[\.\)]$/, '')
StripTrailingDot(s) ==
  IF s # <<>> /\ s[Len(s)] \in {".", ")"} THEN SubSeq(s, 1, Len(s) - 1) ELSE s

\* str.replace(/^"/, '').replace(/"$/, '')
StripOuterQuotes(s) ==
  LET a == IF s # <<>> /\ s[1] = "\"" THEN Tail(s) ELSE s
  IN  IF a # <<>> /\ a[Len(a)] = "\"" THEN SubSeq(a, 1, Len(a) - 1) ELSE a

\* str.includes('\n') || (str.includes(',') && /\d/.test(str))
LooksComplex(str) ==
  \/ \E i \in 1..Len(str) : str[i] = "\n"
  \/ (\E i \in 1..Len(str) : str[i] = ",") /\ (\E i \in 1..Len(str) : IsDigit(str[i]))

cleanAnswer(raw) ==
  IF raw = Undefined THEN <<>>
  ELSE LET str == trim(raw)
       IN  IF LooksComplex(str) THEN StripOuterQuotes(str)
           ELSE LET s2 == StripTrailingDot(StripAnswerPrefix(str))
                IN  IF AllDigits(s2) /\ parseInt(s2) >= 1 /\ parseInt(s2) <= 26
                      THEN fromCharCode64(parseInt(s2))
                      ELSE toUpperCase(s2)

\* colName.match(/^(?:choice[ _]?)?([a-z0-9])$/i): the captured character, or
\* Undefined when the name does not match
ChoiceMatch(colName) ==
  LET oneChar(s) == Len(s) = 1 /\ (IsLetter(s[1]) \/ IsDigit(s[1]))
      rest == SubSeq(colName, 7, Len(colName))
  IN  IF oneChar(colName) THEN colName
      ELSE IF StartsWithI(colName, <<"c","h","o","i","c","e">>)
        THEN IF oneChar(rest) THEN rest
             ELSE IF Len(rest) = 2 /\ rest[1] \in {" ", "_"} /\ oneChar(Tail(rest))
                    THEN Tail(rest)
                    ELSE Undefined
        ELSE Undefined

\* null is modelled by Undefined
getChoiceKey(colName) ==
  LET match == ChoiceMatch(colName)
  IN  IF match = Undefined THEN Undefined
      ELSE LET key == toUpperCase(match)
           IN  IF IsDigit(key[1]) /\ parseInt(key) >= 1 /\ parseInt(key) <= 26
                 THEN fromCharCode64(parseInt(key))
                 ELSE key

----------------------------------------------------------------------------
(* Column mapper of the worker *)

\* name NOT LIKE 'sqlite_%' AND name NOT LIKE 'android_%'
\* ( in LIKE, _ is any one character and the comparison ignores ASCII case )
IsUserTable(name) ==
  /\ ~(StartsWithI(name, <<"s","q","l","i","t","e">>) /\ Len(name) >= 7)
  /\ ~(StartsWithI(name, <<"a","n","d","r","o","i","d">>) /\ Len(name) >= 8)

\* result[0].values.map(v => v[0]): the tables of the file the query returns
UserTables(tables) == SelectSeq(tables, LAMBDA t : IsUserTable(t.name))

\* cols.some(c => /Question/i.test(c)) and cols.some(c => /Answer/i.test(c))
TableScore(cols) ==
  (IF \E i \in 1..Len(cols) : includes(toLowerCase(cols[i]), <<"q","u","e","s","t","i","o","n">>) THEN 5 ELSE 0)
  + (IF \E i \in 1..Len(cols) : includes(toLowerCase(cols[i]), <<"a","n","s","w","e","r">>) THEN 2 ELSE 0)

\* if (score > maxScore) with >= for >
TableWinsOnTie(score, maxScore) == score >= maxScore

\* if (score > maxScore) { maxScore = score; bestTable = table; }
TableWins(score, maxScore) == score > maxScore

\* let bestTable = tables[0]; let maxScore = -1; for (const table of tables) { ... }
\* after the first n tables; bestTable is kept as the position of the table
RECURSIVE ScoreLoop(_, _)
ScoreLoop(tables, n) ==
  IF n = 0 THEN [ bestTable |-> 1, maxScore |-> -1 ]
  ELSE LET before == ScoreLoop(tables, n - 1)
           score == TableScore(tables[n].cols)
       IN  IF TableWins(score, before.maxScore)
             THEN [ bestTable |-> n, maxScore |-> score ]
             ELSE before

\* the table the source is read from
BestTable(tables) == tables[ScoreLoop(tables, Len(tables)).bestTable]

\* findCol(possibilities): the first alias that names a column, as the column is spelled
findCol(cols, possibilities) ==
  LET cleanCols == [i \in 1..Len(cols) |-> trim(toLowerCase(cols[i]))]
      hit(p) == \E i \in 1..Len(cols) : cleanCols[i] = trim(toLowerCase(p))
  IN  IF \E k \in 1..Len(possibilities) : hit(possibilities[k])
        THEN LET k == CHOOSE k \in 1..Len(possibilities) :
                        hit(possibilities[k]) /\ \A j \in 1..(k-1) : ~hit(possibilities[j])
             IN  cols[IndexIn(trim(toLowerCase(possibilities[k])), cleanCols)]
        ELSE Undefined

\* findCol(...) || fallback
OrElse(v, fallback) == IF v = Undefined \/ v = <<>> THEN fallback ELSE v

QTextAliases == << <<"Q","u","e","s","t","i","o","n"," ","T","e","x","t">>, <<"Q","u","e","s","t","i","o","n","T","e","x","t">>, <<"Q","u","e","s","t","i","o","n">>, <<"t","e","x","t">>, <<"b","o","d","y">>, <<"c","o","n","t","e","n","t">> >>
RefAliases == << <<"S","o","u","r","c","e">>, <<"Y">>, <<"R","e","f","I","D">>, <<"R","e","f","e","r","e","n","c","e","I","D">>, <<"C","o","d","e">>, <<"L","a","b","e","l">>, <<"Q","I","D">>, <<"I","D">> >>
AnsAliases == << <<"C","o","r","r","e","c","t","A","n","s","w","e","r","(","s",")">>, <<"C","o","r","r","e","c","t","A","n","s","w","e","r">>, <<"C","o","r","r","e","c","t"," ","A","n","s","w","e","r">>, <<"A","n","s","w","e","r">>, <<"K","e","y">>, <<"A","n","s">> >>
ExpAliases == << <<"E","x","p","l","a","n","a","t","i","o","n">> >>
DomAliases == << <<"D","o","m","a","i","n">>, <<"D","o","m","a","i","n","s">> >>
SubDomAliases == << <<"S","u","b","-","D","o","m","a","i","n">>, <<"S","u","b"," ","D","o","m","a","i","n">>, <<"S","u","b","_","D","o","m","a","i","n">>, <<"S","u","b","D","o","m","a","i","n">> >>
TopAliases == << <<"T","o","p","i","c"," ","A","r","e","a">>, <<"T","o","p","i","c","A","r","e","a">>, <<"T","o","p","i","c">> >>
ChapAliases == << <<"C","h","a","p","t","e","r">>, <<"M","o","d","u","l","e">> >>
HeadAliases == << <<"H","e","a","d","i","n","g">> >>
IdAliases == << <<"I","D">>, <<"i","d">>, <<"p","k">> >>

qTextCol(cols) == OrElse(findCol(cols, QTextAliases), <<"q","u","e","s","t","i","o","n","_","t","e","x","t">>)
refCol(cols) == findCol(cols, RefAliases)
ansCol(cols) == OrElse(findCol(cols, AnsAliases), <<"c","o","r","r","e","c","t","_","a","n","s","w","e","r">>)
expCol(cols) == OrElse(findCol(cols, ExpAliases), <<"e","x","p","l","a","n","a","t","i","o","n">>)
domCol(cols) == findCol(cols, DomAliases)
subDomCol(cols) == findCol(cols, SubDomAliases)
topCol(cols) == findCol(cols, TopAliases)
chapCol(cols) == findCol(cols, ChapAliases)
headCol(cols) == findCol(cols, HeadAliases)
idCol(cols) == OrElse(findCol(cols, IdAliases), <<"i","d">>)

\* rowData = (name) => name && colMap[name] !== undefined ? row[colMap[name]] : null
rowData(cols, row, name) ==
  IF name # Undefined /\ name # <<>> /\ IndexIn(name, cols) > 0
    THEN row[IndexIn(name, cols)]
    ELSE Undefined

\* choices[key] = val on a JavaScript object: an existing key keeps its place, an
\* integer-like key is enumerated before the others, any other key goes last
SetChoice(choices, key, val) ==
  IF \E i \in 1..Len(choices) : choices[i][1] = key
    THEN [i \in 1..Len(choices) |-> IF choices[i][1] = key THEN <<key, val>> ELSE choices[i]]
    ELSE IF IsDigit(key[1]) THEN <<<<key, val>>>> \o choices
         ELSE Append(choices, <<key, val>>)

\* cols.forEach(colName => { const key = getChoiceKey(colName); if (key) { ... } })
RECURSIVE CollectChoices(_, _, _)
CollectChoices(cols, row, n) ==
  IF n = 0 THEN <<>>
  ELSE LET before == CollectChoices(cols, row, n - 1)
           key == getChoiceKey(cols[n])
           val == normalize(row[n])
       IN  IF key # Undefined /\ val # <<>> THEN SetChoice(before, key, val) ELSE before

PlaceholderChoices ==
  << << <<"A">>, <<"O","p","t","i","o","n"," ","A">> >>, << <<"B">>, <<"O","p","t","i","o","n"," ","B">> >>,
     << <<"C">>, <<"O","p","t","i","o","n"," ","C">> >>, << <<"D">>, <<"O","p","t","i","o","n"," ","D">> >> >>

\* RowChoices without the placeholder
RowChoicesNoPlaceholder(cols, row) == CollectChoices(cols, row, Len(cols))

\* the choices of one row: the placeholder only when the text is empty too
RowChoices(cols, row) ==
  LET choices == CollectChoices(cols, row, Len(cols))
  IN  IF normalize(rowData(cols, row, qTextCol(cols))) = <<>> /\ choices = <<>>
        THEN PlaceholderChoices
        ELSE choices

\* RowSkipped with || for &&
RowSkippedEither(cols, row) ==
  \/ normalize(rowData(cols, row, qTextCol(cols))) = <<>>
  \/ normalize(rowData(cols, row, refCol(cols))) = <<>>

\* if (!qText && !refId) continue
RowSkipped(cols, row) ==
  /\ normalize(rowData(cols, row, qTextCol(cols))) = <<>>
  /\ normalize(rowData(cols, row, refCol(cols))) = <<>>

\* the values bound by insertStmt.run for one row; token is the
\* Math.random().toString(36).substr(2,9) drawn for it, at is where the row
\* comes from ( source of the catalogue, row index ), kept to tell rows apart
QuestionRow(source, cols, row, token, at) ==
  [ id |-> source.id \o <<"_">> \o OrElse(normalize(rowData(cols, row, idCol(cols))), token),
    source_file |-> OrElse(source.name, <<"U","n","k","n","o","w","n"," ","S","o","u","r","c","e">>),
    question_text |-> normalize(rowData(cols, row, qTextCol(cols))),
    refId |-> normalize(rowData(cols, row, refCol(cols))),
    correct_answer |-> cleanAnswer(rowData(cols, row, ansCol(cols))),
    choices |-> RowChoices(cols, row),
    explanation |-> OrElse(normalize(rowData(cols, row, expCol(cols))), <<"N","o"," ","e","x","p","l","a","n","a","t","i","o","n",".">>),
    domain |-> normalize(rowData(cols, row, domCol(cols))),
    sub_domain |-> normalize(rowData(cols, row, subDomCol(cols))),
    topic |-> normalize(rowData(cols, row, topCol(cols))),
    chapter |-> normalize(rowData(cols, row, chapCol(cols))),
    heading |-> normalize(rowData(cols, row, headCol(cols))),
    hint_1 |-> normalize(rowData(cols, row, <<"h","i","n","t","_","1">>)),
    hint_2 |-> normalize(rowData(cols, row, <<"h","i","n","t","_","2">>)),
    hint_3 |-> normalize(rowData(cols, row, <<"h","i","n","t","_","3">>)),
    at |-> at ]

----------------------------------------------------------------------------
(* The source files a caller can hand to a merge.  bytes are modelled by what *)
(* SQL.Database(bytes) finds in them: whether they open at all, and the      *)
(* tables ( name, column names, rows of cells ) in sqlite_master order.      *)

SrcBank ==
  [ id |-> <<"u">>, name |-> <<"b","a","n","k",".","d","b">>, readable |-> TRUE,
    tables |-> <<
      [ name |-> <<"n","o","t","e","s">>, cols |-> << <<"n","o","t","e","s">>, <<"d","a","t","e">> >>,
        rows |-> << << <<"n">>, <<"d">> >> >> ],
      [ name |-> <<"b","a","n","k">>,
        cols |-> << <<"I","D">>, <<"Q","u","e","s","t","i","o","n"," ","T","e","x","t">>, <<"R","e","f","I","D">>, <<"A","n","s","w","e","r">>, <<"A">>, <<"2">> >>,
        rows |-> << << <<"1","_","1">>, <<"q","1">>, <<>>, <<"1">>, <<" ","x"," ">>, <<"y">> >>,
                    << <<"2">>, <<" "," ">>, <<>>, <<"B">>, <<"x">>, <<>> >>,
                    << <<"3">>, <<"q","3">>, <<"b","_","1","_","2">>, <<"b",".">>, <<>>, <<" ">> >> >> ] >> ]

SrcDup ==
  [ id |-> <<"u","_","1">>, name |-> <<>>, readable |-> TRUE,
    tables |-> <<
      [ name |-> <<"s","q","l","i","t","e","_","s","e","q","u","e","n","c","e">>, cols |-> << <<"n","a","m","e">>, <<"s","e","q">> >>,
        rows |-> << << <<"t">>, <<"3">> >> >> ],
      [ name |-> <<"t">>,
        cols |-> << <<"p","k">>, <<"q","u","e","s","t","i","o","n">>, <<"a","n","s">>, <<"c","h","o","i","c","e","_","b">>, <<"1","0">> >>,
        rows |-> << << <<"1">>, <<"q","a">>, <<"2">>, <<"v">>, <<"w">> >>,
                    << <<"7">>, <<"q","b">>, <<"O","p","t","i","o","n",":"," ","c">>, <<"v">>, <<>> >>,
                    << <<"7">>, <<"q","c">>, <<"x">>, <<"v">>, <<>> >> >> ] >> ]

SrcNoId ==
  [ id |-> <<"m">>, name |-> <<"e","x","t","r","a",".","s","q","l","i","t","e">>, readable |-> TRUE,
    tables |-> <<
      [ name |-> <<"a","n","d","r","o","i","d","_","m","e","t","a","d","a","t","a">>, cols |-> << <<"l","o","c","a","l","e">> >>,
        rows |-> << << <<"e","n">> >> >> ],
      [ name |-> <<"Q">>,
        cols |-> << <<"Q","u","e","s","t","i","o","n">>, <<"S","o","u","r","c","e">>, <<"0">>, <<"C","h","o","i","c","e"," ","1">> >>,
        rows |-> << << <<>>, <<"c","h","_","2">>, <<>>, <<>> >>,
                    << <<"q","z">>, <<>>, <<"z","e","r","o">>, <<"o","n","e">> >> >> ] >> ]

\* bytes that are no database: the first query on them throws
SrcBad == [ id |-> <<"x">>, name |-> <<"b","a","d",".","d","b">>, readable |-> FALSE, tables |-> <<>> ]

\* a database with system tables only
SrcEmpty ==
  [ id |-> <<"e">>, name |-> <<"e","m","p","t","y",".","d","b">>, readable |-> TRUE,
    tables |-> << [ name |-> <<"s","q","l","i","t","e","_","s","t","a","t","1">>, cols |-> << <<"t","b","l">> >>, rows |-> <<>> ] >> ]

Catalog == << SrcBank, SrcDup, SrcNoId, SrcBad, SrcEmpty >>

\* the values Math.random().toString(36).substr(2,9) is drawn from
RandomTokens == { <<"k","3">>, <<"k","7">> }

\* the source lists of a call: distinct sources, as the callers select them
RECURSIVE SourceLists(_)
SourceLists(n) ==
  IF n = 0 THEN { <<>> }
  ELSE LET shorter == SourceLists(n - 1)
       IN  shorter \cup
           { Append(l, k) : l \in { s \in shorter : Len(s) = n - 1 },
                            k \in 1..Len(Catalog) }

Requests ==
  { l \in SourceLists(MaxSources) :
      Len(l) >= 1 /\ \A i, j \in 1..Len(l) : i # j => l[i] # l[j] }


----------------------------------------------------------------------------
(* The ingestion loop of the worker: everything between `await initSqlJs`   *)
(* and postMessage is synchronous, one step of the worker.                  *)

\* what the column mapper and the normalisers make of each source of the catalogue:
\* whether the row loop is entered, and for each row of the best table whether it
\* is skipped, whether its id needs a random token, and the inserted values by token
SourcePlan(k) ==
  LET source == Catalog[k]
      tables == UserTables(source.tables)
      usable == source.readable /\ tables # <<>>
      table == IF usable THEN BestTable(tables) ELSE [ name |-> <<>>, cols |-> <<>>, rows |-> <<>> ]
  IN  [ readable |-> source.readable,
        hasTables |-> usable,
        rows |-> [ r \in 1..Len(table.rows) |->
                     [ skipped |-> RowSkipped(table.cols, table.rows[r]),
                       needsToken |->
                         normalize(rowData(table.cols, table.rows[r], idCol(table.cols))) = <<>>,
                       q |-> [ token \in RandomTokens |->
                                 QuestionRow(source, table.cols, table.rows[r], token, <<k, r>>) ] ] ] ]

Plan == [ k \in 1..Len(Catalog) |-> SourcePlan(k) ]

\* the rows of a source list for which Math.random() is called: ( position, row )
TokenRows(srcs) ==
  UNION { { <<i, r>> : r \in { r \in 1..Len(Plan[srcs[i]].rows) :
                                  /\ ~Plan[srcs[i]].rows[r].skipped
                                  /\ Plan[srcs[i]].rows[r].needsToken } } :
          i \in 1..Len(srcs) }

AnyToken == CHOOSE t \in RandomTokens : TRUE
TokenAt(tok, i, r) == IF <<i, r>> \in DOMAIN tok THEN tok[<<i, r>>] ELSE AnyToken

\* the locals of the worker: masterDb ( the rows of questions, and txn, the number
\* of rows the table had at BEGIN TRANSACTION or -1 outside a transaction ),
\* totalImported, and how each source iteration ended
NewWorker == [ questions |-> <<>>, txn |-> -1, totalImported |-> 0, log |-> <<>> ]

Logged(w, how) == [w EXCEPT !.log = Append(@, how)]

\* PrimaryKeyFree for a table without the primary key
NoPrimaryKey(questions, row) == TRUE

\* id TEXT PRIMARY KEY: the insert of a row whose id is in the table fails
PrimaryKeyFree(questions, row) == \A i \in 1..Len(questions) : questions[i].id # row.id

\* insertStmt.run([...]); totalImported++
InsertRow(w, q) ==
  [w EXCEPT !.questions = Append(@, q), !.totalImported = @ + 1]

\* for (const row of rows) { ... } insertStmt.free(); masterDb.run("COMMIT")
\* from row r of the source at position i; a failing insert throws into the
\* catch of the source, which logs and runs no ROLLBACK
RECURSIVE RowLoop(_, _, _, _, _)
RowLoop(w, i, k, r, tok) ==
  IF r > Len(Plan[k].rows) THEN Logged([w EXCEPT !.txn = -1], "committed")
  ELSE IF Plan[k].rows[r].skipped THEN RowLoop(w, i, k, r + 1, tok)
  ELSE LET q == Plan[k].rows[r].q[TokenAt(tok, i, r)]
       IN  IF PrimaryKeyFree(w.questions, q)
             THEN RowLoop(InsertRow(w, q), i, k, r + 1, tok)
             ELSE Logged(w, "insert failed")

\* one iteration of for (const source of sources)
IngestSource(w, i, k, tok) ==
  IF ~Plan[k].readable THEN Logged(w, "unreadable")
  ELSE IF ~Plan[k].hasTables THEN Logged(w, "no tables")
  ELSE IF Plan[k].rows = <<>> THEN Logged(w, "no rows")
  \* masterDb.run("BEGIN TRANSACTION") throws inside an open transaction
  ELSE IF w.txn # -1 THEN Logged(w, "begin failed")
  ELSE RowLoop([w EXCEPT !.txn = Len(w.questions)], i, k, 1, tok)

RECURSIVE SourceLoop(_, _, _)
SourceLoop(srcs, n, tok) ==
  IF n = 0 THEN NewWorker
  ELSE IngestSource(SourceLoop(srcs, n - 1, tok), n, srcs[n], tok)

\* ExportBytes without the rollback of the open transaction
ExportBytesNoRollback(w) == w.questions

\* masterDb.export(): sql.js closes the connection, which rolls an open transaction
\* back, and reads the database file
ExportBytes(w) == IF w.txn = -1 THEN w.questions ELSE SubSeq(w.questions, 1, w.txn)

----------------------------------------------------------------------------
(* State *)

VARIABLES
  calls,          \* number of processAndMergeDatabases calls made so far
  sources,        \* sources[c]: the source list of call c ( indices into Catalog )
  promise,        \* promise[c]: the promise call c returned: state and value
  wpc,            \* wpc[c]: where the worker of call c is
  worker,         \* worker[c]: the locals of the worker of call c after its loop
  msg,            \* msg[c]: the terminal message the worker posted
  db,             \* the module-level dataset handle of the main thread
  dbAtCall,       \* dbAtCall[c]: db when call c was made
  fnIn,           \* the argument handed to a function run on its own
  fnOut,          \* what the function returned for it
  fnPc            \* which function has run on fnIn ( "idle" before it has )

fnVars == <<fnIn, fnOut, fnPc>>
vars == <<calls, sources, promise, wpc, worker, msg, db, dbAtCall, fnIn, fnOut, fnPc>>

Calls == 1..MaxCalls

\* let db = null; by tells the handles apart: the call whose message built the object
NullDb == [ open |-> FALSE, questions |-> <<>>, by |-> 0 ]
NoMsg == [ type |-> "none", count |-> 0, bytes |-> <<>> ]

MergeInit ==
  /\ calls = 0
  /\ sources = [c \in Calls |-> <<>>]
  /\ promise = [c \in Calls |-> [state |-> "none", value |-> 0]]
  /\ wpc = [c \in Calls |-> "none"]
  /\ worker = [c \in Calls |-> NewWorker]
  /\ msg = [c \in Calls |-> NoMsg]
  /\ db = NullDb
  /\ dbAtCall = [c \in Calls |-> NullDb]

FnIdle == fnIn = <<>> /\ fnOut = <<>> /\ fnPc = "idle"

Init == MergeInit /\ FnIdle

----------------------------------------------------------------------------
(* processAndMergeDatabases, main thread *)

\* if (sources.length === 0) throw new Error("No sources provided"): the async
\* function returns a rejected promise and starts no worker
CallNoSources(c) ==
  /\ c = calls + 1
  /\ calls' = c
  /\ promise' = [promise EXCEPT ![c] = [state |-> "rejected", value |-> 0]]
  /\ dbAtCall' = [dbAtCall EXCEPT ![c] = db]
  /\ UNCHANGED <<sources, wpc, worker, msg, db, fnIn, fnOut, fnPc>>

\* new Worker(workerUrl); worker.postMessage({ type: 'MERGE', payload: { sources } })
CallMerge(c, srcs) ==
  /\ c = calls + 1
  /\ calls' = c
  /\ sources' = [sources EXCEPT ![c] = srcs]
  /\ promise' = [promise EXCEPT ![c] = [state |-> "pending", value |-> 0]]
  /\ wpc' = [wpc EXCEPT ![c] = "queued"]
  /\ dbAtCall' = [dbAtCall EXCEPT ![c] = db]
  /\ UNCHANGED <<worker, msg, db, fnIn, fnOut, fnPc>>

\* resolve(count) / reject(...): a settled promise stays as it is
Settle(p, state, value) == IF p.state = "pending" THEN [state |-> state, value |-> value] ELSE p

\* db = new SQL.Database(bytes)
OpenDataset(bytes, c) == [ open |-> TRUE, questions |-> bytes, by |-> c ]

\* worker.onmessage, type === 'SUCCESS', getSQLInstance() returns
ReceiveSuccess(c) ==
  /\ wpc[c] = "posted" /\ msg[c].type = "SUCCESS"
  /\ db' = OpenDataset(msg[c].bytes, c)
  /\ wpc' = [wpc EXCEPT ![c] = "terminated"]
  /\ promise' = [promise EXCEPT ![c] = Settle(@, "resolved", msg[c].count)]
  /\ UNCHANGED <<calls, sources, worker, msg, dbAtCall, fnIn, fnOut, fnPc>>

\* worker.onmessage, type === 'SUCCESS', getSQLInstance() throws ( window.initSqlJs
\* is missing, or its promise rejects ): the async handler ends there
ReceiveSuccessNoSql(c) ==
  /\ wpc[c] = "posted" /\ msg[c].type = "SUCCESS"
  /\ wpc' = [wpc EXCEPT ![c] = "idle"]
  /\ UNCHANGED <<calls, sources, promise, worker, msg, db, dbAtCall, fnIn, fnOut, fnPc>>

\* ReceiveError publishing the ( empty ) bytes of the ERROR message
ReceiveErrorPublishes(c) ==
  /\ wpc[c] = "posted" /\ msg[c].type = "ERROR"
  /\ db' = [ open |-> TRUE, questions |-> msg[c].bytes, by |-> c ]
  /\ wpc' = [wpc EXCEPT ![c] = "terminated"]
  /\ promise' = [promise EXCEPT ![c] =
                   IF @.state = "pending" THEN [state |-> "rejected", value |-> 0] ELSE @]
  /\ UNCHANGED <<calls, sources, worker, msg, dbAtCall, fnIn, fnOut, fnPc>>

\* worker.onmessage, type === 'ERROR'
ReceiveError(c) ==
  /\ wpc[c] = "posted" /\ msg[c].type = "ERROR"
  /\ wpc' = [wpc EXCEPT ![c] = "terminated"]
  /\ promise' = [promise EXCEPT ![c] = Settle(@, "rejected", 0)]
  /\ UNCHANGED <<calls, sources, worker, msg, db, dbAtCall, fnIn, fnOut, fnPc>>

----------------------------------------------------------------------------
(* workerCode, the worker of one call *)

\* importScripts(...) throws: the worker never installs self.onmessage
WorkerLoadFails(c) ==
  /\ wpc[c] = "queued"
  /\ wpc' = [wpc EXCEPT ![c] = "dead"]
  /\ UNCHANGED <<calls, sources, promise, worker, msg, db, dbAtCall, fnIn, fnOut, fnPc>>

\* the outer catch: self.postMessage({ type: 'ERROR', message: e.message })
ErrorMsg == [ type |-> "ERROR", count |-> 0, bytes |-> <<>> ]

\* self.postMessage({ type: 'SUCCESS', count: totalImported, bytes: exportBytes })
SuccessMsg(w) == [ type |-> "SUCCESS", count |-> w.totalImported, bytes |-> ExportBytes(w) ]

\* self.onmessage, MERGE: initSqlJs rejects, or creating the database or its
\* table throws, before the first source
WorkerInitFails(c) ==
  /\ wpc[c] = "queued"
  /\ wpc' = [wpc EXCEPT ![c] = "posted"]
  /\ msg' = [msg EXCEPT ![c] = ErrorMsg]
  /\ UNCHANGED <<calls, sources, promise, worker, db, dbAtCall, fnIn, fnOut, fnPc>>

\* self.onmessage, MERGE: the loop over the sources, then export and SUCCESS
\* tok: the Math.random() token of every row that needs one
WorkerMerge(c) ==
  /\ wpc[c] = "queued"
  /\ \E tok \in [TokenRows(sources[c]) -> RandomTokens] :
       worker' = [worker EXCEPT ![c] = SourceLoop(sources[c], Len(sources[c]), tok)]
  /\ msg' = [msg EXCEPT ![c] = SuccessMsg(worker'[c])]
  /\ wpc' = [wpc EXCEPT ![c] = "posted"]
  /\ UNCHANGED <<calls, sources, promise, db, dbAtCall, fnIn, fnOut, fnPc>>

\* self.onmessage, MERGE: the loop over the sources, then masterDb.export() or
\* masterDb.close() throws
WorkerExportFails(c) ==
  /\ wpc[c] = "queued"
  /\ \E tok \in [TokenRows(sources[c]) -> RandomTokens] :
       worker' = [worker EXCEPT ![c] = SourceLoop(sources[c], Len(sources[c]), tok)]
  /\ msg' = [msg EXCEPT ![c] = ErrorMsg]
  /\ wpc' = [wpc EXCEPT ![c] = "posted"]
  /\ UNCHANGED <<calls, sources, promise, db, dbAtCall, fnIn, fnOut, fnPc>>

----------------------------------------------------------------------------
(* The normalisers on their own: a raw answer cell is drawn, cleanAnswer runs *)

AnswerLeads == { <<>>, <<"O","p","t","i","o","n">>, <<"o","p","t","i","o","n",":"," ">>, <<"A","N","S","W","E","R",":">>, <<"T","h","e"," ","a","n","s","w","e","r"," ","i","s"," ">>, <<"A","n","s","w","e","r"," ","O","p","t","i","o","n"," ">> }
AnswerTails == { <<>>, <<".">>, <<")">>, <<".",")">> }
BodyChars == { "0", "1", "2", "7", "b", "C", "," }

RECURSIVE Bodies(_)
Bodies(n) ==
  IF n = 0 THEN { <<>> }
  ELSE Bodies(n - 1) \cup { Append(b, ch) : b \in { x \in Bodies(n - 1) : Len(x) = n - 1 },
                                            ch \in BodyChars }

\* the raw values of the answer column: null, and lead + body + tail
RawAnswers ==
  { Undefined } \cup
  { lead \o body \o tail : lead \in AnswerLeads, body \in Bodies(MaxBody), tail \in AnswerTails }

InitClean ==
  /\ MergeInit
  /\ fnIn \in RawAnswers
  /\ fnOut = <<>>
  /\ fnPc = "idle"

\* const cleanedAns = cleanAnswer(rawAns)
ApplyCleanAnswer ==
  /\ fnPc = "idle"
  /\ fnOut' = cleanAnswer(fnIn)
  /\ fnPc' = "cleanAnswer"
  /\ UNCHANGED <<fnIn, calls, sources, promise, wpc, worker, msg, db, dbAtCall>>

NextClean == ApplyCleanAnswer

SpecClean == InitClean /\ [][NextClean]_vars

----------------------------------------------------------------------------
(* The merge protocol *)

\* the steps of call c and of its worker
Step(c) ==
  \/ CallNoSources(c)
  \/ \E srcs \in Requests : CallMerge(c, srcs)
  \/ WorkerLoadFails(c)
  \/ WorkerInitFails(c)
  \/ WorkerMerge(c)
  \/ WorkerExportFails(c)
  \/ ReceiveSuccess(c)
  \/ ReceiveSuccessNoSql(c)
  \/ ReceiveError(c)

Next == \E c \in Calls : Step(c)

Spec == Init /\ [][Next]_vars

\* one call alone: every worker has a masterDb of its own, so what a merge
\* produces does not depend on the other calls, and longer source lists can be
\* explored
NextOneMerge == Step(1)

SpecOneMerge == Init /\ [][NextOneMerge]_vars

----------------------------------------------------------------------------
(* Vocabulary of the properties *)

\* the table the worker reads from source k of the catalogue
TableOf(k) == BestTable(UserTables(Catalog[k].tables))

\* row r of source k has a question text and a reference id that both normalize to ""
Textless(k, r) ==
  LET q == Plan[k].rows[r].q[AnyToken]
  IN  q.question_text = <<>> /\ q.refId = <<>>

\* the rows of source k that are not skipped
Wanted(k) == { r \in 1..Len(Plan[k].rows) : ~Textless(k, r) }

\* the rows of source k found in the dataset ds
RowsFrom(ds, k) == { ds[j].at[2] : j \in { j \in 1..Len(ds) : ds[j].at[1] = k } }

Succeeded(c) == msg[c].type = "SUCCESS"

\* the datasets call c has published: the bytes of its SUCCESS message, and the
\* handle the main thread built from them
PublishedBy(c) ==
  (IF Succeeded(c) THEN { msg[c].bytes } ELSE {})
  \cup (IF db.by = c THEN { db.questions } ELSE {})

\* every question of every published dataset
StoredRows ==
  UNION { { ds[j] : j \in 1..Len(ds) } : ds \in UNION { PublishedBy(c) : c \in Calls } }

\* the iteration of the source at position i of call c met an error of its own
OwnFailure(c, i) == worker[c].log[i] \in { "unreadable", "no tables", "insert failed" }

----------------------------------------------------------------------------
(* Properties of the merge *)

\* C1: in a published dataset every source has either all of its non-skipped rows
\* or none of them, also when an insert failed part-way through the source, and
\* every source whose transaction committed has all of its rows there
C1_PerSourceAtomic ==
  \A c \in Calls : \A ds \in PublishedBy(c) : \A i \in 1..Len(sources[c]) :
    LET k == sources[c][i]
    IN  /\ RowsFrom(ds, k) \in { {}, Wanted(k) }
        /\ worker[c].log[i] = "committed" => RowsFrom(ds, k) = Wanted(k)

\* a merge published the rows of a committed source although a later source failed
\* after some of its rows had been inserted
C1_Witness ==
  \E c \in Calls :
    /\ Succeeded(c)
    /\ \E i \in 1..Len(sources[c]) : worker[c].log[i] = "insert failed"
    /\ Len(worker[c].questions) > Len(msg[c].bytes)
    /\ Len(msg[c].bytes) > 0

\* C2: a source-level failure ( unreadable bytes, no tables, an insert error )
\* skips only that source: every later source without a failure of its own is
\* fully in the dataset of the SUCCESS message
C2_FailureSkipsOnlyThatSource ==
  \A c \in Calls : Succeeded(c) =>
    \A i \in 1..Len(sources[c]) :
      ( /\ \E j \in 1..(i-1) : OwnFailure(c, j)
        /\ ~OwnFailure(c, i) )
      => RowsFrom(msg[c].bytes, sources[c][i]) = Wanted(sources[c][i])

\* C3: every call with a non-empty source list gets exactly one terminal outcome;
\* in the form a finite run refutes: once the worker of a call has stopped ( its
\* terminal message was handled, or its script never loaded ) the promise of the
\* call is resolved or rejected
C3_OneTerminalOutcome ==
  \A c \in Calls :
    wpc[c] \in { "terminated", "idle", "dead" } => promise[c].state \in { "resolved", "rejected" }

\* C4: when no merge is in flight any more, the current dataset is the one of the
\* most recently requested merge that succeeded, in whatever order the SUCCESS
\* messages were handled
C4_LatestRequestWins ==
  LET done == { c \in Calls : wpc[c] = "terminated" /\ Succeeded(c) }
  IN  ( /\ done # {}
        /\ \A c \in Calls : wpc[c] \notin { "queued", "posted" } )
      => db.questions = msg[SetMax(done)].bytes

UniqueIds(ds) == \A a, b \in 1..Len(ds) : a # b => ds[a].id # ds[b].id

\* C6: no two rows of a published dataset have the same composite id
C6_UniqueIds ==
  \A c \in Calls : \A ds \in PublishedBy(c) : UniqueIds(ds)

\* a published dataset holds rows of two sources
C6_Witness ==
  \E c \in Calls :
    /\ Succeeded(c)
    /\ \E a, b \in 1..Len(msg[c].bytes) : msg[c].bytes[a].at[1] # msg[c].bytes[b].at[1]

\* C7: a row whose text and reference id both normalize to "" is never inserted
\* and never counted; every row inserted is counted once; and every other row of
\* a source whose transaction committed is in the published dataset exactly once
C7_TextlessRowsSkipped ==
  \A c \in Calls :
    /\ \A j \in 1..Len(worker[c].questions) :
         ~Textless(worker[c].questions[j].at[1], worker[c].questions[j].at[2])
    /\ worker[c].totalImported = Len(worker[c].questions)
    /\ \A ds \in PublishedBy(c) : \A i \in 1..Len(sources[c]) :
         worker[c].log[i] = "committed" =>
           \A r \in 1..Len(Plan[sources[c][i]].rows) :
             Cardinality({ j \in 1..Len(ds) : ds[j].at = <<sources[c][i], r>> })
               = IF Textless(sources[c][i], r) THEN 0 ELSE 1

\* a source with a textless row was committed and the count leaves that row out
C7_Witness ==
  \E c \in Calls :
    /\ Succeeded(c)
    /\ \E i \in 1..Len(sources[c]) :
         /\ worker[c].log[i] = "committed"
         /\ \E r \in 1..Len(Plan[sources[c][i]].rows) : Textless(sources[c][i], r)
    /\ msg[c].count = Len(msg[c].bytes)
    /\ msg[c].count > 0

\* the number a column is named by, 0 when its name is not a number
ColumnNumber(colName) == IF AllDigits(colName) THEN parseInt(colName) ELSE 0

\* C8: every key of the choices of a stored question is one uppercase letter, and
\* a non-empty cell of a column named by a number 1..26 is stored under the letter
\* of that number
C8_ChoiceKeysAreLetters ==
  \A q \in StoredRows :
    /\ \A n \in 1..Len(q.choices) :
         Len(q.choices[n][1]) = 1 /\ IndexIn(q.choices[n][1][1], Uppers) > 0
    /\ LET table == TableOf(q.at[1])
       IN  \A x \in 1..Len(table.cols) :
             ( /\ ColumnNumber(table.cols[x]) \in 1..26
               /\ trim(table.rows[q.at[2]][x]) # <<>> )
             => \E n \in 1..Len(q.choices) :
                  q.choices[n] = << <<Uppers[ColumnNumber(table.cols[x])]>>,
                                    trim(table.rows[q.at[2]][x]) >>

\* C9 as claimed: no stored question has an empty choices mapping
C9_NeverZeroChoices ==
  \A q \in StoredRows : q.choices # <<>>

\* C9 as the code has it: no stored question with an empty text has an empty
\* choices mapping; with no surviving choice cell it has the A..D placeholder
C9_TextlessNeverZeroChoices ==
  \A q \in StoredRows :
    q.question_text = <<>> =>
      /\ q.choices # <<>>
      /\ LET table == TableOf(q.at[1])
         IN  (\A x \in 1..Len(table.cols) :
                getChoiceKey(table.cols[x]) = Undefined \/ trim(table.rows[q.at[2]][x]) = <<>>)
             => q.choices = PlaceholderChoices

\* a question without text was stored with the placeholder
C9_Witness ==
  \E q \in StoredRows : q.question_text = <<>> /\ q.choices = PlaceholderChoices

----------------------------------------------------------------------------
(* Properties of the answer normaliser *)

ColonOrSpace == { ":" } \cup Whitespace

\* the prefix the normaliser strips from t ends at position p: one of the three
\* lead-ins in any case, then every ':' and blank that follows; 0 without lead-in
LeadEndsAt(t, p) ==
  LET leads(K) == Len(t) >= Len(K) /\ \A i \in 1..Len(K) : UpperChar(t[i]) = UpperChar(K[i])
  IN  \/ p = 0 /\ \A k \in 1..Len(AnswerPrefixes) : ~leads(AnswerPrefixes[k])
      \/ \E k \in 1..Len(AnswerPrefixes) :
           /\ leads(AnswerPrefixes[k])
           /\ p >= Len(AnswerPrefixes[k])
           /\ \A i \in (Len(AnswerPrefixes[k]) + 1)..p : t[i] \in ColonOrSpace
           /\ p = Len(t) \/ t[p + 1] \notin ColonOrSpace

\* the decimal numeral of n, 1 <= n <= 99
Numeral(n) == IF n < 10 THEN <<Digits[n + 1]>> ELSE <<Digits[(n \div 10) + 1], Digits[(n % 10) + 1]>>

\* s is the numeral of n, possibly after zeros
IsNumeralOf(s, n) ==
  \E z \in 0..Len(s) :
    /\ \A i \in 1..z : s[i] = "0"
    /\ SubSeq(s, z + 1, Len(s)) = Numeral(n)

\* C10: for a simple raw answer ( no newline, no comma together with a digit )
\* cleanAnswer strips the lead-in, strips one trailing '.' or ')', and returns the
\* letter of the remainder when it is a number 1..26, the remainder in upper case
\* otherwise; raw "1" becomes "A"
C10_CleanAnswerSimple ==
  LET t == trim(fnIn)
      simple == /\ \A i \in 1..Len(t) : t[i] # "\n"
                /\ ~( (\E i \in 1..Len(t) : t[i] = ",") /\ (\E i \in 1..Len(t) : t[i] \in Range(Digits)) )
  IN  ( fnPc = "cleanAnswer" /\ fnIn # Undefined /\ simple ) =>
        /\ \E p \in 0..Len(t) : \E e \in 0..1 :
             /\ p + e <= Len(t)
             /\ LeadEndsAt(t, p)
             /\ e = 1 <=> ( p < Len(t) /\ t[Len(t)] \in { ".", ")" } )
             /\ LET core == SubSeq(t, p + 1, Len(t) - e)
                IN  IF \E n \in 1..26 : IsNumeralOf(core, n)
                      THEN \E n \in 1..26 : IsNumeralOf(core, n) /\ fnOut = <<Uppers[n]>>
                      ELSE /\ Len(fnOut) = Len(core)
                           /\ \A i \in 1..Len(core) : fnOut[i] = UpperChar(core[i])
        /\ fnIn = <<"1">> => fnOut = <<"A">>

\* a lead-in, a number and a trailing dot: "option: 2." became "B"
C10_Witness ==
  fnPc = "cleanAnswer" /\ fnIn = <<"o","p","t","i","o","n",":"," ","2",".">> /\ fnOut = <<"B">>


----------------------------------------------------------------------------
(* The table choice on its own: a file with up to MaxTables tables *)

\* most tables of one source file
MaxTables == 3

\* column lists a table of a file may have
ColumnShapes ==
  { << <<"n","o","t","e","s">>, <<"d","a","t","e">> >>,
    << <<"Q","u","e","s","t","i","o","n">>, <<"A","n","s","w","e","r">>, <<"C","h","o","i","c","e","A">>, <<"C","h","o","i","c","e","B">> >>,
    << <<"Q","U","E","S","T","I","O","N","_","T","E","X","T">>, <<"a">> >>,
    << <<"i","d">>, <<"a","n","s","w","e","r","_","k","e","y">> >>,
    << <<"A","n","s","w","e","r","s">>, <<"m","y"," ","q","u","e","s","t","i","o","n">> >> }

\* the tables of a file in the order sqlite_master lists them, named by position
RECURSIVE TableLists(_)
TableLists(n) ==
  IF n = 0 THEN { <<>> }
  ELSE TableLists(n - 1) \cup
       { Append(l, [ name |-> << "t", Digits[n + 1] >>, cols |-> c, rows |-> <<>> ]) :
           l \in { x \in TableLists(n - 1) : Len(x) = n - 1 }, c \in ColumnShapes }

InitBestTable ==
  /\ MergeInit
  /\ fnIn \in { l \in TableLists(MaxTables) : Len(l) >= 1 }
  /\ fnOut = <<>>
  /\ fnPc = "idle"

\* the scoring loop and the PRAGMA table_info / SELECT * of the table it chose
ApplyBestTable ==
  /\ fnPc = "idle"
  /\ fnOut' = BestTable(fnIn)
  /\ fnPc' = "bestTable"
  /\ UNCHANGED <<fnIn, calls, sources, promise, wpc, worker, msg, db, dbAtCall>>

NextBestTable == ApplyBestTable

SpecBestTable == InitBestTable /\ [][NextBestTable]_vars

\* points of a table: for a column name containing "question", for one containing
\* "answer", in any case
ContainsI(s, word) ==
  \E i \in 1..Len(s) : i + Len(word) - 1 <= Len(s) /\
    \A k \in 1..Len(word) : LowerChar(s[i + k - 1]) = word[k]

Points(table) ==
  (IF \E x \in 1..Len(table.cols) : ContainsI(table.cols[x], <<"q","u","e","s","t","i","o","n">>) THEN 5 ELSE 0)
  + (IF \E x \in 1..Len(table.cols) : ContainsI(table.cols[x], <<"a","n","s","w","e","r">>) THEN 2 ELSE 0)

\* C12: the table read is one of the file, no table of the file has more points,
\* and every table before it has fewer; the file with tables [notes, date] and
\* [Question, Answer, ChoiceA, ChoiceB] is read from the second
C12_HighestScoreFirstWins ==
  fnPc = "bestTable" =>
    /\ \E i \in 1..Len(fnIn) :
         /\ fnOut = fnIn[i]
         /\ \A j \in 1..Len(fnIn) : Points(fnIn[j]) <= Points(fnIn[i])
         /\ \A j \in 1..(i - 1) : Points(fnIn[j]) < Points(fnIn[i])
    /\ ( /\ Len(fnIn) = 2
         /\ fnIn[1].cols = << <<"n","o","t","e","s">>, <<"d","a","t","e">> >>
         /\ fnIn[2].cols = << <<"Q","u","e","s","t","i","o","n">>, <<"A","n","s","w","e","r">>, <<"C","h","o","i","c","e","A">>, <<"C","h","o","i","c","e","B">> >> )
       => fnOut = fnIn[2]

\* a file of three tables where the second and the third tie for the most points,
\* read from the second
C12_Witness ==
  /\ fnPc = "bestTable"
  /\ Len(fnIn) = 3
  /\ Points(fnIn[1]) < Points(fnIn[2])
  /\ Points(fnIn[2]) = Points(fnIn[3])
  /\ fnOut = fnIn[2]


----------------------------------------------------------------------------
(* The choice-column mapper on its own: the column named by a number and the *)
(* column named by the letter of that number, under the same prefix          *)

ChoicePrefixes == { <<>>, <<"c","h","o","i","c","e">>, <<"C","h","o","i","c","e"," ">>, <<"C","H","O","I","C","E","_">> }

\* decimal numeral of a column number, as a column name spells it
ColumnNumeral(n) ==
  IF n < 10 THEN <<Digits[n + 1]>> ELSE <<Digits[(n \div 10) + 1], Digits[(n % 10) + 1]>>

\* pairs of column names: prefix + number, prefix + letter ( in either case )
ChoiceColumnPairs ==
  { [ n |-> n, byNumber |-> p \o ColumnNumeral(n), byLetter |-> p \o <<alphabet[n]>> ] :
      p \in ChoicePrefixes, n \in 1..26, alphabet \in { Uppers, Lowers } }

InitChoiceKey ==
  /\ MergeInit
  /\ fnIn \in ChoiceColumnPairs
  /\ fnOut = <<>>
  /\ fnPc = "idle"

\* cols.forEach(colName => { const key = getChoiceKey(colName); ... }) on the two columns
ApplyGetChoiceKey ==
  /\ fnPc = "idle"
  /\ fnOut' = [ byNumber |-> getChoiceKey(fnIn.byNumber), byLetter |-> getChoiceKey(fnIn.byLetter) ]
  /\ fnPc' = "getChoiceKey"
  /\ UNCHANGED <<fnIn, calls, sources, promise, wpc, worker, msg, db, dbAtCall>>

NextChoiceKey == ApplyGetChoiceKey

SpecChoiceKey == InitChoiceKey /\ [][NextChoiceKey]_vars

\* C11: a column named by a number 1..26 and the column named by the letter of
\* that number, with or without the choice prefix and in any case, get the same
\* canonical key, the upper-case letter
C11_NumberAndLetterSameKey ==
  fnPc = "getChoiceKey" =>
    /\ fnOut.byNumber = fnOut.byLetter
    /\ fnOut.byLetter = <<Uppers[fnIn.n]>>


----------------------------------------------------------------------------
(* a.localeCompare(b, undefined, { numeric: true, sensitivity: 'base' }) *)

\* the characters of the model in the order of the root collation: blank,
\* punctuation, symbols, digits, letters ( a letter and its capital are equal at
\* base sensitivity )
CollationOrder ==
  << " ", "_", "-", ",", ":", ".", "'", "\"", "(", ")", "[", "]", "|", "+", "~" >>

CollationRank(c) ==
  IF IsDigit(c) THEN 100 + IndexIn(c, Digits)
  ELSE IF IsLetter(c) THEN 200 + IndexIn(UpperChar(c), Uppers)
  ELSE IndexIn(c, CollationOrder)

\* the digits a string starts with
RECURSIVE LeadingDigits(_)
LeadingDigits(s) ==
  IF s # <<>> /\ IsDigit(s[1]) THEN <<s[1]>> \o LeadingDigits(Tail(s)) ELSE <<>>

Sign(n) == IF n < 0 THEN -1 ELSE IF n > 0 THEN 1 ELSE 0

\* negative, zero or positive as a sorts before, with or after b: runs of digits
\* compare as numbers, other characters by their collation rank
RECURSIVE localeCompare(_, _)
localeCompare(a, b) ==
  IF a = <<>> \/ b = <<>> THEN Sign(Len(a) - Len(b))
  ELSE IF IsDigit(a[1]) /\ IsDigit(b[1])
    THEN LET na == LeadingDigits(a)
             nb == LeadingDigits(b)
         IN  IF parseInt(na) # parseInt(nb) THEN Sign(parseInt(na) - parseInt(nb))
             ELSE localeCompare(SubSeq(a, Len(na) + 1, Len(a)), SubSeq(b, Len(nb) + 1, Len(b)))
  ELSE IF CollationRank(a[1]) # CollationRank(b[1])
    THEN Sign(CollationRank(a[1]) - CollationRank(b[1]))
  ELSE localeCompare(Tail(a), Tail(b))


----------------------------------------------------------------------------
(* Reference ids: parseRefId of the query layer *)

\* raw.split(/[_\.]+/).filter(Boolean): the non-empty pieces between runs of '_' and '.'
RefDelimiters == { "_", "." }

RECURSIVE SplitRef(_, _, _)
\* s: what is left to read, cur: the piece being read, done: the pieces read
SplitRef(s, cur, done) ==
  LET closed == IF cur = <<>> THEN done ELSE Append(done, cur)
  IN  IF s = <<>> THEN closed
      ELSE IF s[1] \in RefDelimiters THEN SplitRef(Tail(s), <<>>, closed)
      ELSE SplitRef(Tail(s), Append(cur, s[1]), done)

\* JoinDots that keeps one part only
JoinDotsFirstOnly(parts, from) == parts[from]

\* parts.slice(from).join('.')
RECURSIVE JoinDots(_, _)
JoinDots(parts, from) ==
  IF from > Len(parts) THEN <<>>
  ELSE IF from = Len(parts) THEN parts[from]
  ELSE parts[from] \o <<".">> \o JoinDots(parts, from + 1)

\* case-insensitive s.endsWith(p)
EndsWithI(s, p) ==
  Len(s) >= Len(p) /\ toLowerCase(SubSeq(s, Len(s) - Len(p) + 1, Len(s))) = toLowerCase(p)

DbExtensions == << <<".","d","b">>, <<".","s","q","l","i","t","e">>, <<".","s","q","l","i","t","e","3">> >>

\* sourceFile.replace(/\.(db|sqlite|sqlite3)$/i, '')
StripDbExtension(sourceFile) ==
  IF \E k \in 1..Len(DbExtensions) : EndsWithI(sourceFile, DbExtensions[k])
    THEN LET k == CHOOSE k \in 1..Len(DbExtensions) : EndsWithI(sourceFile, DbExtensions[k])
         IN  SubSeq(sourceFile, 1, Len(sourceFile) - Len(DbExtensions[k]))
    ELSE sourceFile

\* parseInt(s, 10): blanks, a sign, then the digits s goes on with; NaN without a digit
\* ( isNaN, and the number otherwise )
parseInt10(s) ==
  LET blanks == { i \in 1..Len(s) : \A j \in 1..i : s[j] \in Whitespace }
      t == SubSeq(s, Cardinality(blanks) + 1, Len(s))
      signed == t # <<>> /\ t[1] \in { "+", "-" }
      run == LeadingDigits(IF signed THEN Tail(t) ELSE t)
  IN  [ isNaN |-> run = <<>>,
        value |-> IF run = <<>> THEN 0
                  ELSE IF signed /\ t[1] = "-" THEN 0 - parseInt(run) ELSE parseInt(run) ]

parseRefId(refId, sourceFile) ==
  LET raw == normalize(refId)
      parts == SplitRef(raw, <<>>, <<>>)
      named == IF Len(parts) >= 3
                 THEN [ book |-> parts[1], chapter |-> parts[2], qLabel |-> JoinDots(parts, 3) ]
               ELSE IF Len(parts) = 2
                 THEN [ book |-> parts[1], chapter |-> <<"G","e","n","e","r","a","l">>, qLabel |-> parts[2] ]
               ELSE [ book |-> IF sourceFile # <<>> /\ sourceFile # Undefined
                                 THEN StripDbExtension(sourceFile)
                                 ELSE <<"U","n","c","a","t","e","g","o","r","i","z","e","d">>,
                      chapter |-> <<"A","l","l">>,
                      qLabel |-> IF Len(parts) >= 1 THEN parts[1] ELSE <<"0">> ]
      qNum == parseInt10(named.qLabel)
  IN  [ book |-> named.book, chapter |-> named.chapter,
        question |-> IF qNum.isNaN THEN 0 ELSE qNum.value, qLabel |-> named.qLabel ]

----------------------------------------------------------------------------
(* parseRefId on its own *)

\* longest reference id body drawn
MaxRef == 6

RefChars == { "b", "2", "_", "." }

RECURSIVE RefBodies(_)
RefBodies(n) ==
  IF n = 0 THEN { <<>> }
  ELSE RefBodies(n - 1) \cup { Append(b, ch) : b \in { x \in RefBodies(n - 1) : Len(x) = n - 1 },
                                               ch \in RefChars }

\* the refId cells: null, padded and spaced ids, and every body over RefChars
RefIds == { Undefined, <<" ","b","_","2"," ">>, <<"b"," ","1",".","2","x">>, <<"C","h","-","3","_","-","4">>, <<"b","_","2",".","2","_","b">>, <<"_","b",".","2","_","b","_","2",".","b","_">> } \cup RefBodies(MaxRef)

\* the source_file cells
SourceNames == { <<>>, <<"b","a","n","k",".","d","b">>, <<"x",".","y",".","S","Q","L","i","t","e","3">>, <<"U","n","k","n","o","w","n"," ","S","o","u","r","c","e">> }

InitRefId ==
  /\ MergeInit
  /\ fnIn \in { [ refId |-> r, sourceFile |-> f ] : r \in RefIds, f \in SourceNames }
  /\ fnOut = <<>>
  /\ fnPc = "idle"

\* const parsed = parseRefId(row[0], row[1])
ApplyParseRefId ==
  /\ fnPc = "idle"
  /\ fnOut' = parseRefId(fnIn.refId, fnIn.sourceFile)
  /\ fnPc' = "parseRefId"
  /\ UNCHANGED <<fnIn, calls, sources, promise, wpc, worker, msg, db, dbAtCall>>

NextRefId == ApplyParseRefId

SpecRefId == InitRefId /\ [][NextRefId]_vars

\* positions a..b of t hold one part: no delimiter inside, a delimiter or an end of
\* t on either side
IsPart(t, a, b) ==
  /\ 1 <= a /\ a <= b /\ b <= Len(t)
  /\ \A i \in a..b : t[i] \notin { "_", "." }
  /\ a = 1 \/ t[a - 1] \in { "_", "." }
  /\ b = Len(t) \/ t[b + 1] \in { "_", "." }

PartsOf(t) == { ab \in (1..Len(t)) \X (1..Len(t)) : IsPart(t, ab[1], ab[2]) }

\* part number n of t, counted from 0 as the policy counts
PartNo(t, n) ==
  LET ab == CHOOSE ab \in PartsOf(t) :
              Cardinality({ cd \in PartsOf(t) : cd[1] < ab[1] }) = n
  IN  SubSeq(t, ab[1], ab[2])

\* parts n, n+1, ... of t with a '.' between them
RECURSIVE PartsFrom(_, _)
PartsFrom(t, n) ==
  IF n = Cardinality(PartsOf(t)) - 1 THEN PartNo(t, n)
  ELSE PartNo(t, n) \o <<".">> \o PartsFrom(t, n + 1)

\* name is file without its .db / .sqlite / .sqlite3 extension, if it has one
IsWithoutExtension(name, file) ==
  LET lower == [ i \in 1..Len(file) |-> LowerChar(file[i]) ]
      exts == { <<".","d","b">>, <<".","s","q","l","i","t","e">>, <<".","s","q","l","i","t","e","3">> }
  IN  \/ \E e \in exts : Len(file) >= Len(e) /\ lower = [ i \in 1..Len(name) |-> LowerChar(name[i]) ] \o e
                         /\ name = SubSeq(file, 1, Len(name))
      \/ name = file /\ \A e \in exts :
           ~( Len(file) >= Len(e) /\ SubSeq(lower, Len(file) - Len(e) + 1, Len(file)) = e )

\* C13: parseRefId answers for every reference id and source name, and follows
\* the priority policy: 3 or more parts; exactly 2 parts; 0 or 1 part; no field
\* of the triple is null
C13_ParseRefIdPolicy ==
  fnPc = "parseRefId" =>
    LET t == IF fnIn.refId = Undefined THEN <<>> ELSE trim(fnIn.refId)
        k == Cardinality(PartsOf(t))
    IN  /\ fnOut.book # Undefined /\ fnOut.chapter # Undefined /\ fnOut.qLabel # Undefined
        /\ k >= 3 => /\ fnOut.book = PartNo(t, 0)
                     /\ fnOut.chapter = PartNo(t, 1)
                     /\ fnOut.qLabel = PartsFrom(t, 2)
        /\ k = 2 => /\ fnOut.book = PartNo(t, 0)
                    /\ fnOut.chapter = <<"G","e","n","e","r","a","l">>
                    /\ fnOut.qLabel = PartNo(t, 1)
        /\ k <= 1 => /\ IF fnIn.sourceFile = <<>>
                          THEN fnOut.book = <<"U","n","c","a","t","e","g","o","r","i","z","e","d">>
                          ELSE IsWithoutExtension(fnOut.book, fnIn.sourceFile)
                     /\ fnOut.chapter = <<"A","l","l">>
                     /\ fnOut.qLabel = IF k = 1 THEN PartNo(t, 0) ELSE <<"0">>

\* a reference id of four parts: the label joins the last two
C13_Witness ==
  /\ fnPc = "parseRefId"
  /\ fnIn.refId = <<"b","_","2",".","2","_","b">>
  /\ fnOut.book = <<"b">> /\ fnOut.chapter = <<"2">> /\ fnOut.qLabel = <<"2",".","b">>


----------------------------------------------------------------------------
(* questionParser: matching questions *)

\* \w
IsWordChar(c) == IsLetter(c) \/ IsDigit(c) \/ c = "_"

RECURSIVE WordRun(_)
WordRun(s) == IF s # <<>> /\ IsWordChar(s[1]) THEN 1 + WordRun(Tail(s)) ELSE 0

\* cleanMatchText that leaves the text as it is
cleanMatchTextKeepsPrefix(text) == trim(text)

\* text.replace(/^[\w]+[\.\)]\s*/, '').trim()
cleanMatchText(text) ==
  LET run == WordRun(text)
  IN  IF run >= 1 /\ Len(text) > run /\ text[run + 1] \in { ".", ")" }
        THEN trim(SubSeq(text, run + 2, Len(text)))
        ELSE trim(text)

\* /\[MATCH\]/i.test(questionText); a null text is tested as "null"
isMatch(questionText) == includes(toUpperCase(questionText), <<"[","M","A","T","C","H","]">>)

\* s.split(sep) for a one-character separator: the pieces, empty ones included
RECURSIVE SplitOn(_, _, _)
SplitOn(s, sep, cur) ==
  IF s = <<>> THEN << cur >>
  ELSE IF s[1] = sep THEN << cur >> \o SplitOn(Tail(s), sep, <<>>)
  ELSE SplitOn(Tail(s), sep, Append(cur, s[1]))

\* correctStr.replace(/\\n/g, '\n'): a backslash followed by n becomes a newline
RECURSIVE UnescapeNewlines(_)
UnescapeNewlines(s) ==
  IF s = <<>> THEN <<>>
  ELSE IF Len(s) >= 2 /\ s[1] = "\\" /\ s[2] = "n"
    THEN << "\n" >> \o UnescapeNewlines(SubSeq(s, 3, Len(s)))
  ELSE << s[1] >> \o UnescapeNewlines(Tail(s))

\* .split('\n').map(l => l.trim()).filter(Boolean)
MatchLines(correctStr) ==
  LET pieces == SplitOn(UnescapeNewlines(correctStr), "\n", <<>>)
  IN  SelectSeq([ i \in 1..Len(pieces) |-> trim(pieces[i]) ], LAMBDA l : l # <<>>)

\* s.trim().replace(/['"]/g, '').toUpperCase()
CleanKey(s) == toUpperCase(SelectSeq(trim(s), LAMBDA c : c \notin { "'", "\"" }))

\* line.split(',').map(s => s.trim().replace(/['"]/g, '').toUpperCase())
PairParts(line) ==
  LET pieces == SplitOn(line, ",", <<>>)
  IN  [ i \in 1..Len(pieces) |-> CleanKey(pieces[i]) ]

\* s.charAt(0)
charAt0(s) == IF s = <<>> THEN <<>> ELSE << s[1] >>

\* idToChoices[id]: the choices whose text starts with id, in the order of
\* Object.entries, each with its key and its display text; <<>> when undefined
idToChoices(choices, id) ==
  LET mine == SelectSeq(choices, LAMBDA kv :
                trim(kv[2]) # <<>> /\ toUpperCase(charAt0(trim(kv[2]))) = id)
  IN  [ i \in 1..Len(mine) |-> [ key |-> mine[i][1], text |-> cleanMatchText(trim(mine[i][2])) ] ]

\* validPairs after the first n lines
RECURSIVE validPairs(_, _, _)
validPairs(choices, lines, n) ==
  IF n = 0 THEN <<>>
  ELSE LET before == validPairs(choices, lines, n - 1)
           parts == PairParts(lines[n])
       IN  IF Len(parts) >= 2
             THEN LET id1 == charAt0(parts[1])
                      id2 == charAt0(parts[2])
                  IN  IF idToChoices(choices, id1) # <<>> /\ idToChoices(choices, id2) # <<>>
                        THEN Append(before, << id1, id2 >>)
                        ELSE before
             ELSE before

\* Array.from(ids).sort((a, b) => a.localeCompare(b, ...)) for a set of ids
RECURSIVE SortedIds(_)
SortedIds(ids) ==
  IF ids = {} THEN <<>>
  ELSE LET first == CHOOSE a \in ids : \A b \in ids : localeCompare(a, b) <= 0
       IN  << first >> \o SortedIds(ids \ { first })

\* sortedIds.forEach(id => idToChoices[id].forEach(c => list.push(c.<field>)))
RECURSIVE ListOfIds(_, _, _)
ListOfIds(choices, ids, field) ==
  IF ids = <<>> THEN <<>>
  ELSE LET group == idToChoices(choices, ids[1])
       IN  [ i \in 1..Len(group) |-> group[i][field] ] \o ListOfIds(choices, Tail(ids), field)

\* `${lc.text}||${rc.key}`
Link(text, key) == text \o <<"|","|">> \o key

parseMatchConfiguration(question) ==
  LET correctStr == IF question.correct_answer = Undefined THEN <<>> ELSE question.correct_answer
      choices == question.choices
      pairs == validPairs(choices, MatchLines(correctStr), Len(MatchLines(correctStr)))
      leftIds == { pairs[i][1] : i \in 1..Len(pairs) }
      rightIds == { pairs[i][2] : i \in 1..Len(pairs) }
      correctLinks ==
        UNION { { Link(idToChoices(choices, pairs[i][1])[l].text, idToChoices(choices, pairs[i][2])[r].key) :
                    l \in 1..Len(idToChoices(choices, pairs[i][1])),
                    r \in 1..Len(idToChoices(choices, pairs[i][2])) } :
                i \in 1..Len(pairs) }
  IN  [ leftItems |-> ListOfIds(choices, SortedIds(leftIds), "text"),
        rightChoices |-> ListOfIds(choices, SortedIds(rightIds), "key"),
        correctLinks |-> correctLinks,
        isValid |-> Cardinality(correctLinks) > 0 ]


----------------------------------------------------------------------------
(* questionParser: grading *)

\* (question.correct_answer || "").trim().toUpperCase()
CorrectStr(question) ==
  toUpperCase(trim(IF question.correct_answer = Undefined THEN <<>> ELSE question.correct_answer))

\* Object.keys(question.choices)
KeysOf(choices) == [ i \in 1..Len(choices) |-> choices[i][1] ]

isMultiSelect(question) ==
  IF includes(toUpperCase(question.question_text), <<"[","M","U","L","T","I","]">>) THEN TRUE
  ELSE IF isMatch(question.question_text) THEN FALSE
  ELSE LET correct == CorrectStr(question)
           keys == KeysOf(question.choices)
       IN  IF includes(correct, <<",">>) THEN TRUE
           ELSE IF Len(correct) > 1 /\ Len(keys) > 0
             THEN \A i \in 1..Len(correct) : \E k \in 1..Len(keys) : keys[k] = << correct[i] >>
             ELSE FALSE

\* a selected option: null, one string, or an array of strings ( keys or links );
\* value is the array, or the array of the one string
NullOption == [ kind |-> "null", value |-> <<>> ]
StringOption(s) == [ kind |-> "string", value |-> << s >> ]
ArrayOption(a) == [ kind |-> "array", value |-> a ]

\* a comparison that leaves the sizes out
SubsetOnly(userSet, correctSet) == \A v \in userSet : v \in correctSet

\* userSet.size === correctSet.size && every member of userSet is in correctSet
SameSet(userSet, correctSet) ==
  Cardinality(userSet) = Cardinality(correctSet) /\ \A v \in userSet : v \in correctSet

\* correctOptions that never splits the answer key
correctOptionsWhole(question) == << CorrectStr(question) >>

\* correctOptions of the multi / single branch
correctOptions(question) ==
  LET correctStr == CorrectStr(question)
      pieces == SplitOn(correctStr, ",", <<>>)
  IN  IF includes(correctStr, <<",">>)
        THEN [ i \in 1..Len(pieces) |->
                 SelectSeq(trim(pieces[i]), LAMBDA c : c \notin { "'", "\"" }) ]
      ELSE IF isMultiSelect(question) /\ Len(correctStr) > 1
        THEN [ i \in 1..Len(correctStr) |-> << correctStr[i] >> ]
      ELSE << correctStr >>

checkAnswerCorrectness(question, selectedOption) ==
  IF selectedOption.kind = "null" THEN FALSE
  ELSE IF isMatch(question.question_text)
    THEN LET config == parseMatchConfiguration(question)
             userLinks == IF selectedOption.kind = "array" THEN selectedOption.value ELSE <<>>
         IN  IF ~config.isValid THEN FALSE
             ELSE SameSet(Range(userLinks), config.correctLinks)
  ELSE IF isMultiSelect(question)
    THEN \* selections = Array.isArray(selectedOption) ? selectedOption : [selectedOption]
         SameSet(Range(selectedOption.value), Range(correctOptions(question)))
  ELSE \* selectedOption[0] of an empty array is undefined, equal to no string
       selectedOption.value # <<>> /\ selectedOption.value[1] = correctOptions(question)[1]


----------------------------------------------------------------------------
(* The graders on their own: a question and a selected option are drawn *)

\* choices in the order of Object.entries: integer keys first
ScenarioChoices ==
  << << <<"1">>, <<"p">> >>, << <<"2">>, <<"q">> >>, << <<"A">>, <<"x">> >>, << <<"B">>, <<"y">> >>, << <<"C">>, <<"z">> >> >>
\* the same keys, each text opening with its own enumerator
EnumeratedChoices ==
  << << <<"1">>, <<"1","."," ","p">> >>, << <<"2">>, <<"2","."," ","q">> >>, << <<"A">>, <<"A","."," ","x">> >>, << <<"B">>, <<"B","."," ","y">> >>,
     << <<"C">>, <<"C","."," ","z">> >> >>
PrefixedChoices ==
  << << <<"A">>, <<"A","."," ","x">> >>, << <<"B">>, <<"b",")"," ","y">> >>, << <<"C">>, <<"1","."," ","p">> >>,
     << <<"D">>, <<" ","2","."," ","q">> >>, << <<"E">>, <<"1",")"," ","r">> >> >>
TwinChoices ==
  << << <<"A">>, <<"A","."," ","x">> >>, << <<"B">>, <<"A",")"," ","x">> >>, << <<"C">>, <<"1","."," ","p">> >>, << <<"D">>, <<" ">> >> >>

MatchAnswers ==
  { <<"A",",","1","\n"," ","C",",","2">>, <<"A",",","1">>, <<"1",",","A">> \o << "\\", "n" >> \o <<"B",",","2">>, <<" ","a"," ",","," ","1"," ">>, <<"'","A","'",",","\"","2","\"">>, <<>>, <<"A">>, <<"Z",",","1">>,
    <<"A",",","1","\n","A",",","1">>, <<"B",",","2",",","x","\n","\n","A",",","1">> }

MatchQuestions ==
  { [ question_text |-> <<"[","M","a","t","c","h","]"," ","m">>, correct_answer |-> a, choices |-> c ] :
      a \in MatchAnswers \cup { Undefined },
      c \in { ScenarioChoices, EnumeratedChoices, PrefixedChoices, TwinChoices } }

\* a set as an array, in some order
RECURSIVE ArrayOf(_)
ArrayOf(S) ==
  IF S = {} THEN <<>>
  ELSE LET x == CHOOSE x \in S : TRUE IN << x >> \o ArrayOf(S \ { x })

Reversed(a) == [ i \in 1..Len(a) |-> a[Len(a) + 1 - i] ]

\* the arrays a user interface can hand in for the members of U: every subset, in
\* two orders, and with a member twice
ArraysOver(U) ==
  UNION { { ArrayOf(S), Reversed(ArrayOf(S)), ArrayOf(S) \o ArrayOf(S) } : S \in SUBSET U }

\* links that are in no configuration of the questions above, or in some
StrayLinks == { <<"x","|","|","1">>, <<"z","|","|","2">>, <<"x","|","|","B">> }

MatchOptions(question) ==
  { NullOption, StringOption(<<"x","|","|","C">>) } \cup
  { ArrayOption(a) : a \in ArraysOver(parseMatchConfiguration(question).correctLinks \cup StrayLinks) }


\* questions that are not matching questions
FourChoices ==
  << << <<"A">>, <<"r","e","d">> >>, << <<"B">>, <<"g","r","e","e","n">> >>, << <<"C">>, <<"b","l","u","e">> >>, << <<"D">>, <<"N","o","n","e">> >> >>

KeyAnswers ==
  { <<"A",",","C">>, <<" ","a",","," ","c"," ">>, <<"A","C">>, <<"A">>, <<"'","A","'",",","\"","C","\"">>, <<"N","o","n","e">>, <<"A",",","A">>, <<"C","A">>, <<"A",",","B",",","C">>, <<"A","X">> }

KeyQuestions ==
  { [ question_text |-> t, correct_answer |-> a, choices |-> FourChoices ] :
      t \in { <<"P","i","c","k"," ","t","h","e"," ","c","o","l","o","u","r","s">>, <<"[","m","u","l","t","i","]"," ","P","i","c","k"," ","t","h","e"," ","c","o","l","o","u","r","s">> },
      a \in KeyAnswers \cup { Undefined } }

KeyOptions ==
  { NullOption, StringOption(<<"A">>), StringOption(<<"A","C">>), StringOption(<<"A",",","C">>) } \cup
  { ArrayOption(a) : a \in ArraysOver({ <<"A">>, <<"B">>, <<"C">> }) }

GradingInputs ==
  { [ question |-> q, selectedOption |-> o ] : q \in KeyQuestions, o \in KeyOptions } \cup
  UNION { { [ question |-> q, selectedOption |-> o ] : o \in MatchOptions(q) } : q \in MatchQuestions }

InitGrading ==
  /\ MergeInit
  /\ fnIn \in GradingInputs
  /\ fnOut = <<>>
  /\ fnPc = "idle"

\* the quiz screen lays a matching question out
ApplyParseMatch ==
  /\ fnPc = "idle"
  /\ isMatch(fnIn.question.question_text)
  /\ fnOut' = parseMatchConfiguration(fnIn.question)
  /\ fnPc' = "parseMatchConfiguration"
  /\ UNCHANGED <<fnIn, calls, sources, promise, wpc, worker, msg, db, dbAtCall>>

\* the selected option is submitted
ApplyCheckAnswer ==
  /\ fnPc \in { "idle", "parseMatchConfiguration" }
  /\ fnOut' = [ isCorrect |-> checkAnswerCorrectness(fnIn.question, fnIn.selectedOption) ]
  /\ fnPc' = "checkAnswerCorrectness"
  /\ UNCHANGED <<fnIn, calls, sources, promise, wpc, worker, msg, db, dbAtCall>>

NextGrading == ApplyParseMatch \/ ApplyCheckAnswer

SpecGrading == InitGrading /\ [][NextGrading]_vars

----------------------------------------------------------------------------
(* Vocabulary of the grading claims *)

\* the lines of the answer key that name two groups of choices, as pairs of identifiers
IdOf(text) == toUpperCase(charAt0(trim(text)))
GroupOf(choices, id) ==
  { i \in 1..Len(choices) : trim(choices[i][2]) # <<>> /\ IdOf(choices[i][2]) = id }
ValidPairsOf(question) ==
  LET lines == MatchLines(IF question.correct_answer = Undefined THEN <<>> ELSE question.correct_answer)
  IN  { << charAt0(PairParts(lines[i])[1]), charAt0(PairParts(lines[i])[2]) >> :
          i \in { j \in 1..Len(lines) :
                    /\ Len(PairParts(lines[j])) >= 2
                    /\ GroupOf(question.choices, charAt0(PairParts(lines[j])[1])) # {}
                    /\ GroupOf(question.choices, charAt0(PairParts(lines[j])[2])) # {} } }

\* the links of one pair of groups that are in a link set
LinksOfPair(links, choices, pair) ==
  { k \in links : \E l \in GroupOf(choices, pair[1]), r \in GroupOf(choices, pair[2]) :
                    k = Link(cleanMatchText(trim(choices[l][2])), choices[r][1]) }

\* C14: for every valid (leftId, rightId) pair of a matching question whose groups have
\* m and n choices, correctLinks holds exactly m x n links of that pair
C14_LinksPerPair ==
  fnPc = "parseMatchConfiguration" =>
    \A pair \in ValidPairsOf(fnIn.question) :
      Cardinality(LinksOfPair(fnOut.correctLinks, fnIn.question.choices, pair))
        = Cardinality(GroupOf(fnIn.question.choices, pair[1]))
            * Cardinality(GroupOf(fnIn.question.choices, pair[2]))

ScenarioQuestion(choices) ==
  [ question_text |-> <<"[","M","a","t","c","h","]"," ","m">>, correct_answer |-> <<"A",",","1","\n"," ","C",",","2">>, choices |-> choices ]

\* C15 as stated: the answer key "A,1\n C,2" over the choices A="x", B="y", C="z", 1="p",
\* 2="q" gives two valid pairs, leftItems ["x","z"], correctLinks {"x||1","z||2"}, isValid
C15_ScenarioAsStated ==
  ( fnPc = "parseMatchConfiguration" /\ fnIn.question = ScenarioQuestion(ScenarioChoices) ) =>
    /\ Cardinality(ValidPairsOf(fnIn.question)) = 2
    /\ fnOut.leftItems = << <<"x">>, <<"z">> >>
    /\ fnOut.correctLinks = { <<"x","|","|","1">>, <<"z","|","|","2">> }
    /\ fnOut.isValid

\* C15 amended: the same answer key over the choices A="A. x", B="B. y", C="C. z",
\* 1="1. p", 2="2. q", whose texts open with the identifiers, gives two valid pairs,
\* leftItems ["x","z"], correctLinks {"x||1","z||2"} and isValid; over the bare texts no
\* identifier of the key names a choice and the configuration is empty and not valid
C15_ScenarioEnumerated ==
  fnPc = "parseMatchConfiguration" =>
    /\ fnIn.question = ScenarioQuestion(EnumeratedChoices) =>
         /\ Cardinality(ValidPairsOf(fnIn.question)) = 2
         /\ fnOut.leftItems = << <<"x">>, <<"z">> >>
         /\ fnOut.correctLinks = { <<"x","|","|","1">>, <<"z","|","|","2">> }
         /\ fnOut.isValid
    /\ fnIn.question = ScenarioQuestion(ScenarioChoices) =>
         /\ fnOut.leftItems = <<>>
         /\ fnOut.correctLinks = {}
         /\ ~fnOut.isValid

C15_Witness ==
  /\ fnPc = "parseMatchConfiguration"
  /\ fnIn.question = ScenarioQuestion(EnumeratedChoices)
  /\ fnOut.isValid

\* C16: a submission to a matching question is graded correct exactly when the
\* configuration is valid and the submitted set of links equals correctLinks: a strict
\* subset and a strict superset are incorrect, every submission is incorrect when the
\* configuration is not valid, and a submission that is no array of links ( null, one
\* string ) is incorrect; the grader returns a boolean for every submission
C16_MatchGradedBySetEquality ==
  ( fnPc = "checkAnswerCorrectness" /\ isMatch(fnIn.question.question_text) ) =>
    LET config == parseMatchConfiguration(fnIn.question)
        submitted == Range(fnIn.selectedOption.value)
    IN  /\ fnOut.isCorrect \in BOOLEAN
        /\ fnIn.selectedOption.kind = "array" =>
             ( fnOut.isCorrect <=> ( config.isValid /\ submitted = config.correctLinks ) )
        /\ fnIn.selectedOption.kind # "array" => ~fnOut.isCorrect
        /\ ~config.isValid => ~fnOut.isCorrect
        /\ ( submitted \subseteq config.correctLinks /\ submitted # config.correctLinks )
             => ~fnOut.isCorrect
        /\ ( config.correctLinks \subseteq submitted /\ submitted # config.correctLinks )
             => ~fnOut.isCorrect

\* both links of the scenario submitted, in the other order: correct
C16_Witness ==
  /\ fnPc = "checkAnswerCorrectness"
  /\ fnIn.question = ScenarioQuestion(EnumeratedChoices)
  /\ fnIn.selectedOption = ArrayOption(<< <<"z","|","|","2">>, <<"x","|","|","1">> >>)
  /\ fnOut.isCorrect

\* the three ways a question that is not a matching question is a multi-select one
TaggedMulti(question) == includes(toUpperCase(question.question_text), <<"[","M","U","L","T","I","]">>)
MultiForm(question) ==
  LET answer == CorrectStr(question)
  IN  \/ TaggedMulti(question)
      \/ \E i \in 1..Len(answer) : answer[i] = ","
      \/ /\ Len(answer) > 1
         /\ \A i \in 1..Len(answer) :
              \E k \in 1..Len(question.choices) : question.choices[k][1] = << answer[i] >>

\* the keys an answer key names: its comma-separated items, or else its characters
CorrectKeys(question) ==
  LET answer == CorrectStr(question)
  IN  IF \E i \in 1..Len(answer) : answer[i] = ","
        THEN { CleanKey(piece) : piece \in Range(SplitOn(answer, ",", <<>>)) }
        ELSE { << answer[i] >> : i \in 1..Len(answer) }

AC4 == [ question_text |-> <<"P","i","c","k"," ","t","h","e"," ","c","o","l","o","u","r","s">>, correct_answer |-> <<"A",",","C">>, choices |-> FourChoices ]

----------------------------------------------------------------------------
(* sqliteService: the query operations over db *)

\* SQLite's LIKE: % is any run of characters, _ any one character, letters match
\* without regard to case
RECURSIVE Like(_, _)
Like(s, pat) ==
  IF pat = <<>> THEN s = <<>>
  ELSE IF pat[1] = "%" THEN Like(s, Tail(pat)) \/ ( s # <<>> /\ Like(Tail(s), pat) )
  ELSE /\ s # <<>>
       /\ ( pat[1] = "_" \/ UpperChar(pat[1]) = UpperChar(s[1]) )
       /\ Like(Tail(s), Tail(pat))

\* SQLite's REPLACE(s, from, to), from not empty
RECURSIVE Replace(_, _, _)
Replace(s, from, to) ==
  IF Len(s) < Len(from) THEN s
  ELSE IF SubSeq(s, 1, Len(from)) = from
    THEN to \o Replace(SubSeq(s, Len(from) + 1, Len(s)), from, to)
  ELSE << s[1] >> \o Replace(Tail(s), from, to)

\* SQLite's LTRIM(s) and TRIM(s): blanks only
RECURSIVE LTrim(_)
LTrim(s) == IF s # <<>> /\ s[1] = " " THEN LTrim(Tail(s)) ELSE s
RECURSIVE RTrim(_)
RTrim(s) == IF s # <<>> /\ s[Len(s)] = " " THEN RTrim(SubSeq(s, 1, Len(s) - 1)) ELSE s
SqlTrim(s) == RTrim(LTrim(s))

\* the domain condition of one selected domain name; the name is written into the
\* statement with its quotes doubled, which the statement reads back as the name
DomainCondition(row, d) ==
  IF d = <<"U","n","c","a","t","e","g","o","r","i","z","e","d">> THEN SqlTrim(row.domain) = <<>>
  ELSE Like(<<"|">> \o Replace(Replace(Replace(SqlTrim(row.domain), <<" ","|"," ">>, <<"|">>), <<" ","|">>, <<"|">>),
                             <<"|"," ">>, <<"|">>) \o <<"|">>,
            <<"%","|">> \o normalize(d) \o <<"|","%">>)

\* the filters getQuestions and getAvailableQuestionCount share
CommonFilters(row, args) ==
  /\ args.reviewFilter = "exclude" => ~Like(LTrim(row.question_text), <<"~","%">>)
  /\ args.reviewFilter = "only" => Like(LTrim(row.question_text), <<"~","%">>)
  /\ args.questionType = "match" => Like(row.question_text, <<"%","[","M","A","T","C","H","]","%">>)
  /\ args.questionType = "multi" =>
       ( Like(row.question_text, <<"%","[","M","U","L","T","I","]","%">>) \/ Like(row.correct_answer, <<"%",",","%">>) )
  /\ args.questionType = "image" => Like(row.question_text, <<"%","[","P","I","C","]","%">>)
  /\ args.excludeImages => ~Like(row.question_text, <<"%","[","P","I","C","]","%">>)

DomainFilter(row, selectedDomains) ==
  selectedDomains # <<>> => \E i \in 1..Len(selectedDomains) : DomainCondition(row, selectedDomains[i])

\* books && books.length > 0 ? books : (book ? [book] : [])
activeBooks(args) ==
  IF args.books # <<>> THEN args.books ELSE IF args.book # <<>> THEN << args.book >> ELSE <<>>
activeChapters(args) ==
  IF args.chapters # <<>> THEN args.chapters
  ELSE IF args.chapter # <<>> THEN << args.chapter >> ELSE <<>>

\* the WHERE clause of getQuestions
QuestionsWhere(row, args) ==
  /\ IF activeBooks(args) # <<>>
       THEN \E i \in 1..Len(activeBooks(args)) :
              \/ Like(row.refId, activeBooks(args)[i] \o <<"%">>)
              \/ Like(row.source_file, activeBooks(args)[i] \o <<"%">>)
       ELSE DomainFilter(row, args.selectedDomains)
  /\ CommonFilters(row, args)
  /\ args.searchText # <<>> => Like(row.question_text, <<"%">> \o normalize(args.searchText) \o <<"%">>)

\* the strict filter of the book mode
InScope(row, args) ==
  LET parsed == parseRefId(row.refId, row.source_file)
  IN  /\ \E i \in 1..Len(activeBooks(args)) : activeBooks(args)[i] = parsed.book
      /\ \/ \E i \in 1..Len(activeChapters(args)) : activeChapters(args)[i] = <<"A","l","l">>
         \/ \E i \in 1..Len(activeChapters(args)) : activeChapters(args)[i] = parsed.chapter

\* the comparator of the book mode: negative, zero or positive
compareQuestions(a, b) ==
  LET pA == parseRefId(a.refId, a.source_file)
      pB == parseRefId(b.refId, b.source_file)
      bookDiff == localeCompare(pA.book, pB.book)
      chapDiff == localeCompare(pA.chapter, pB.chapter)
  IN  IF bookDiff # 0 THEN bookDiff
      ELSE IF chapDiff # 0 THEN chapDiff
      ELSE IF pA.question # 0 /\ pB.question # 0 THEN pA.question - pB.question
      ELSE localeCompare(pA.qLabel, pB.qLabel)

\* Array.prototype.sort with the comparator: stable, each element put behind the
\* last one it does not sort before
RECURSIVE InsertQuestion(_, _)
InsertQuestion(sorted, q) ==
  IF sorted = <<>> THEN << q >>
  ELSE IF compareQuestions(q, sorted[Len(sorted)]) < 0
    THEN Append(InsertQuestion(SubSeq(sorted, 1, Len(sorted) - 1), q), sorted[Len(sorted)])
  ELSE Append(sorted, q)

RECURSIVE SortQuestions(_, _)
SortQuestions(qs, n) ==
  IF n = 0 THEN <<>> ELSE InsertQuestion(SortQuestions(qs, n - 1), qs[n])

\* a.slice(0, count), also LIMIT count
Limit(a, count) == IF Len(a) > count THEN SubSeq(a, 1, count) ELSE a

\* the orders ORDER BY RANDOM() can give the rows
RECURSIVE Shuffles(_)
Shuffles(rows) ==
  IF rows = <<>> THEN { <<>> }
  ELSE UNION { { << rows[i] >> \o rest :
                   rest \in Shuffles(SubSeq(rows, 1, i - 1) \o SubSeq(rows, i + 1, Len(rows))) } :
               i \in 1..Len(rows) }

ThrownError(message) == [ thrown |-> TRUE, value |-> message ]
Returned(value) == [ thrown |-> FALSE, value |-> value ]
\* a count returned
Counted(n) == [ thrown |-> FALSE, count |-> n ]

\* getQuestions without the test of db
getQuestionsOfAnyDb(dataset, args) ==
  { Returned(Limit(SelectSeq(dataset.questions, LAMBDA row : QuestionsWhere(row, args)), args.count)) }

\* what getQuestions can return or throw
getQuestions(dataset, args) ==
  IF ~dataset.open THEN { ThrownError(<<"D","a","t","a","b","a","s","e"," ","n","o","t"," ","i","n","i","t","i","a","l","i","z","e","d">>) }
  ELSE LET rows == SelectSeq(dataset.questions, LAMBDA row : QuestionsWhere(row, args))
       IN  IF activeBooks(args) # <<>>
             THEN LET scoped == SelectSeq(rows, LAMBDA row : InScope(row, args))
                  IN  { Returned(Limit(SortQuestions(scoped, Len(scoped)), args.count)) }
             ELSE { Returned(Limit(order, args.count)) : order \in Shuffles(rows) }

\* getAbsoluteTotalCount: SELECT COUNT(*) FROM questions
getAbsoluteTotalCount(dataset) ==
  IF ~dataset.open THEN 0 ELSE Len(dataset.questions)

\* getAvailableQuestionCount: SELECT COUNT(*) FROM questions WHERE ...
getAvailableQuestionCount(dataset, args) ==
  IF ~dataset.open THEN 0
  ELSE Len(SelectSeq(dataset.questions,
                     LAMBDA row : DomainFilter(row, args.selectedDomains) /\ CommonFilters(row, args)))

\* the members of a list, each once, in the order of their first appearance
RECURSIVE Distinct(_)
Distinct(a) ==
  IF a = <<>> THEN <<>>
  ELSE LET before == Distinct(SubSeq(a, 1, Len(a) - 1))
       IN  IF a[Len(a)] \in Range(before) THEN before ELSE Append(before, a[Len(a)])

\* the order of Object.entries over keys given in insertion order: the keys that
\* are array indices first, ascending, then the others as inserted
IsIndexKey(k) == AllDigits(k) /\ ( Len(k) = 1 \/ k[1] # "0" )
RECURSIVE Ascending(_)
Ascending(S) ==
  IF S = {} THEN <<>>
  ELSE LET least == CHOOSE k \in S : \A other \in S : parseInt(k) <= parseInt(other)
       IN  << least >> \o Ascending(S \ { least })
EntriesOrder(keys) ==
  Ascending({ k \in Range(keys) : IsIndexKey(k) }) \o SelectSeq(keys, LAMBDA k : ~IsIndexKey(k))

\* a.localeCompare(b, undefined, { numeric: true }): strings equal but for the case
\* of their letters are told apart, the small letter first
localeCompareCased(a, b) ==
  IF localeCompare(a, b) # 0 \/ Len(a) # Len(b) THEN localeCompare(a, b)
  ELSE LET differ == { i \in 1..Len(a) : a[i] # b[i] }
       IN  IF differ = {} THEN 0
           ELSE IF IndexIn(a[SetMin(differ)], Lowers) > 0 THEN -1 ELSE 1

\* names.sort(...): stable, by one of the two comparisons
RECURSIVE InsertName(_, _, _)
InsertName(sorted, name, cased) ==
  IF sorted = <<>> THEN << name >>
  ELSE IF ( IF cased THEN localeCompareCased(name, sorted[Len(sorted)])
            ELSE localeCompare(name, sorted[Len(sorted)]) ) < 0
    THEN Append(InsertName(SubSeq(sorted, 1, Len(sorted) - 1), name, cased), sorted[Len(sorted)])
  ELSE Append(sorted, name)
RECURSIVE SortNames(_, _, _)
SortNames(names, n, cased) ==
  IF n = 0 THEN <<>> ELSE InsertName(SortNames(names, n - 1, cased), names[n], cased)

\* getBooksAndChapters
getBooksAndChapters(dataset) ==
  IF ~dataset.open THEN <<>>
  ELSE LET parsed == [ i \in 1..Len(dataset.questions) |->
                         parseRefId(dataset.questions[i].refId, dataset.questions[i].source_file) ]
           books == EntriesOrder(Distinct([ i \in 1..Len(parsed) |-> parsed[i].book ]))
           chaptersOf(book) ==
             LET mine == SelectSeq(parsed, LAMBDA p : p.book = book)
                 chapters == Distinct([ i \in 1..Len(mine) |-> mine[i].chapter ])
             IN  SortNames(chapters, Len(chapters), FALSE)
           sorted == SortNames(books, Len(books), FALSE)
       IN  [ i \in 1..Len(sorted) |-> [ book |-> sorted[i], chapters |-> chaptersOf(sorted[i]) ] ]

ignoredDomains == { <<"A","s","s","e","s","s","m","e","n","t">>, <<"A","s","s","e","s","s","m","e","n","t"," ","T","e","s","t">>, <<"G","e","n","e","r","a","l"," ","K","n","o","w","l","e","d","g","e">>, <<"G","e","n","e","r","a","l">> }

\* the names one row is counted under
DomainNames(row) ==
  IF normalize(row.domain) = <<>> THEN << <<"U","n","c","a","t","e","g","o","r","i","z","e","d">> >>
  ELSE LET parts == SplitOn(normalize(row.domain), "|", <<>>)
       IN  SelectSeq([ i \in 1..Len(parts) |-> trim(parts[i]) ],
                     LAMBDA clean : clean # <<>> /\ clean \notin ignoredDomains)

RECURSIVE AllDomainNames(_)
AllDomainNames(rows) ==
  IF rows = <<>> THEN <<>> ELSE DomainNames(rows[1]) \o AllDomainNames(Tail(rows))

\* getDomainStats
getDomainStats(dataset, reviewFilter) ==
  IF ~dataset.open THEN <<>>
  ELSE LET rows == SelectSeq(dataset.questions, LAMBDA row :
                     /\ reviewFilter = "exclude" => ~Like(LTrim(row.question_text), <<"~","%">>)
                     /\ reviewFilter = "only" => Like(LTrim(row.question_text), <<"~","%">>))
           counted == AllDomainNames(rows)
           names == EntriesOrder(Distinct(counted))
           sorted == SortNames(names, Len(names), TRUE)
       IN  [ i \in 1..Len(sorted) |->
               [ name |-> sorted[i],
                 count |-> Cardinality({ j \in 1..Len(counted) : counted[j] = sorted[i] }) ] ]

----------------------------------------------------------------------------
(* The query operations and the start of a Journey session, over a dataset that a
   merge has published or none *)

\* most rows of a published dataset
MaxRows == 3

StoredRow(id, refId, file, text, answer, domain) ==
  [ id |-> id, refId |-> refId, source_file |-> file, question_text |-> text,
    correct_answer |-> answer, domain |-> domain ]

RowPool ==
  << StoredRow(<<"b","_","1">>, <<"b","_","1","_","2">>, <<"b",".","d","b">>, <<"q">>, <<"A">>, <<"D","1">>),
     StoredRow(<<"b","_","2">>, <<"b","_","1","_","1","0">>, <<"b",".","d","b">>, <<"~","q">>, <<"A",",","C">>, <<"D","1"," ","|"," ","D","2">>),
     StoredRow(<<"b","_","3">>, <<"b","_","1","0","_","1">>, <<"b",".","d","b">>, <<"q"," ","[","M","U","L","T","I","]">>, <<"A","C">>, <<>>),
     StoredRow(<<"c","_","1">>, <<"b","_","2","_","1","a">>, <<"c",".","d","b">>, <<"[","M","a","t","c","h","]"," ","m">>, <<"A",",","1">>, <<"G","e","n","e","r","a","l">>),
     StoredRow(<<"c","_","2">>, <<"c",".","1",".","b">>, <<"c",".","d","b">>, <<"q"," ","[","P","I","C","]">>, <<"B">>, <<"d","2","|","G","e","n","e","r","a","l">>),
     StoredRow(<<"b","_","4">>, <<"7">>, <<"b",".","d","b">>, <<"q">>, <<"A">>, <<"D","1">>),
     StoredRow(<<"b","_","5">>, <<"b","b","_","1","_","1">>, <<"b",".","d","b">>, <<"q">>, <<"A">>, <<"1","0">>),
     StoredRow(<<"c","_","3">>, <<"B","_","1","_","1">>, <<"c",".","d","b">>, <<"q">>, <<"A">>, <<"D","2">>),
     StoredRow(<<"c","_","4">>, <<"b","_","1">>, <<"c",".","d","b">>, <<"q">>, <<"A">>, <<"D","2">>),
     StoredRow(<<"b","_","6">>, <<"b","_","1","_"," ","5">>, <<"b",".","d","b">>, <<"q">>, <<"A">>, <<"D","1">>),
     StoredRow(<<"b","_","7">>, <<"b","_","1","_","0">>, <<"b",".","d","b">>, <<"q">>, <<"A">>, <<"D","1">>) >>

\* the rows of the pool at the positions of S, in the order of the pool
RECURSIVE RowsAt(_)
RowsAt(S) ==
  IF S = {} THEN <<>> ELSE << RowPool[SetMin(S)] >> \o RowsAt(S \ { SetMin(S) })

Datasets ==
  UNION { { OpenDataset(RowsAt(S), 1), OpenDataset(Reversed(RowsAt(S)), 1) } :
          S \in { T \in SUBSET (1..Len(RowPool)) : Cardinality(T) <= MaxRows } }

NoFilters ==
  [ count |-> MaxRows, selectedDomains |-> <<>>, reviewFilter |-> "all", searchText |-> <<>>,
    questionType |-> "all", excludeImages |-> FALSE, book |-> <<>>, chapter |-> <<>>,
    sortRefId |-> FALSE, books |-> <<>>, chapters |-> <<>> ]

BookArgs ==
  { [ NoFilters EXCEPT !.count = n, !.reviewFilter = r, !.book = b[1], !.books = b[2],
                       !.chapter = c[1], !.chapters = c[2] ] :
      n \in { 1, MaxRows }, r \in { "all", "exclude" },
      b \in { << <<"b">>, <<>> >>, << <<>>, << <<"b">>, <<"c">> >> >>, << <<"c">>, << <<"B">> >> >> },
      c \in { << <<>>, <<>> >>, << <<"1">>, <<>> >>, << <<>>, << <<"A","l","l">> >> >>,
              << <<"A","l","l">>, << <<"1">>, <<"G","e","n","e","r","a","l">>, <<"1","0">> >> >> } }

PracticeArgs ==
  { [ NoFilters EXCEPT !.count = n, !.selectedDomains = d, !.questionType = t,
                       !.excludeImages = x, !.searchText = s, !.reviewFilter = r ] :
      n \in { 1, MaxRows },
      d \in { <<>>, << <<"D","1">> >>, << <<"U","n","c","a","t","e","g","o","r","i","z","e","d">>, <<"D","2">> >> },
      t \in { "all", "multi", "match", "image" },
      x \in BOOLEAN,
      s \in { <<>>, <<" ","q"," ">> },
      r \in { "all", "only" } }

InitQuery ==
  /\ calls = 0
  /\ sources = [c \in Calls |-> <<>>]
  /\ promise = [c \in Calls |-> [state |-> "none", value |-> 0]]
  /\ wpc = [c \in Calls |-> "none"]
  /\ worker = [c \in Calls |-> NewWorker]
  /\ msg = [c \in Calls |-> NoMsg]
  /\ db \in { NullDb } \cup Datasets
  /\ dbAtCall = [c \in Calls |-> NullDb]
  /\ FnIdle

CallGetBooksAndChapters ==
  /\ fnPc = "idle"
  /\ fnOut' = Returned(getBooksAndChapters(db))
  /\ fnPc' = "getBooksAndChapters"
  /\ UNCHANGED <<fnIn, calls, sources, promise, wpc, worker, msg, db, dbAtCall>>

CallGetDomainStats ==
  /\ fnPc = "idle"
  /\ \E reviewFilter \in { "all", "exclude", "only" } :
       /\ fnIn' = [ reviewFilter |-> reviewFilter ]
       /\ fnOut' = Returned(getDomainStats(db, reviewFilter))
  /\ fnPc' = "getDomainStats"
  /\ UNCHANGED <<calls, sources, promise, wpc, worker, msg, db, dbAtCall>>

CallGetAvailableQuestionCount ==
  /\ fnPc = "idle"
  /\ \E args \in PracticeArgs :
       /\ fnIn' = args
       /\ fnOut' = Counted(getAvailableQuestionCount(db, args))
  /\ fnPc' = "getAvailableQuestionCount"
  /\ UNCHANGED <<calls, sources, promise, wpc, worker, msg, db, dbAtCall>>

CallGetAbsoluteTotalCount ==
  /\ fnPc = "idle"
  /\ fnOut' = Counted(getAbsoluteTotalCount(db))
  /\ fnPc' = "getAbsoluteTotalCount"
  /\ UNCHANGED <<fnIn, calls, sources, promise, wpc, worker, msg, db, dbAtCall>>

CallGetQuestions ==
  /\ fnPc = "idle"
  /\ \E args \in BookArgs \cup PracticeArgs :
       /\ fnIn' = args
       /\ fnOut' \in getQuestions(db, args)
  /\ fnPc' = "getQuestions"
  /\ UNCHANGED <<calls, sources, promise, wpc, worker, msg, db, dbAtCall>>

\* the arguments handleStartMarathon calls getQuestions with
MarathonArgs(activeCount, isBookMode) ==
  [ NoFilters EXCEPT !.count = activeCount, !.sortRefId = isBookMode ]

NoSession == [ quizQuestions |-> <<>>, questionCount |-> 0, sessionType |-> "STANDARD" ]

\* handleStartMarathon(isBookMode, enableConfidence); totalQuestionsInDb is the count
\* the app keeps of the dataset, 0 when it has lost it
handleStartMarathon ==
  /\ fnPc = "idle"
  /\ \E isBookMode \in BOOLEAN, totalQuestionsInDb \in { 0, Len(db.questions) } :
       LET activeCount == IF totalQuestionsInDb = 0 THEN getAbsoluteTotalCount(db)
                          ELSE totalQuestionsInDb
       IN  /\ fnIn' = [ isBookMode |-> isBookMode, totalQuestionsInDb |-> totalQuestionsInDb ]
           /\ \E allQuestions \in getQuestions(db, MarathonArgs(activeCount, isBookMode)) :
                fnOut' = IF allQuestions.thrown
                           THEN [ alert |-> <<"E","r","r","o","r"," ","s","t","a","r","t","i","n","g"," ","j","o","u","r","n","e","y",":"," ">> \o allQuestions.value,
                                  session |-> NoSession ]
                         ELSE IF allQuestions.value = <<>>
                           THEN [ alert |-> <<"E","r","r","o","r"," ","s","t","a","r","t","i","n","g"," ","j","o","u","r","n","e","y",":"," ","N","o"," ","q","u","e","s","t","i","o","n","s"," ","f","o","u","n","d"," ","i","n"," ","d","a","t","a","b","a","s","e",".">>,
                                  session |-> NoSession ]
                         ELSE [ alert |-> <<>>,
                                session |-> [ quizQuestions |-> allQuestions.value,
                                              questionCount |-> Len(allQuestions.value),
                                              sessionType |-> "MARATHON" ] ]
  /\ fnPc' = "handleStartMarathon"
  /\ UNCHANGED <<calls, sources, promise, wpc, worker, msg, db, dbAtCall>>

NextQuery ==
  \/ CallGetBooksAndChapters
  \/ CallGetDomainStats
  \/ CallGetAvailableQuestionCount
  \/ CallGetAbsoluteTotalCount
  \/ CallGetQuestions
  \/ handleStartMarathon

SpecQuery == InitQuery /\ [][NextQuery]_vars

----------------------------------------------------------------------------
(* Vocabulary of the query claims *)

\* q1 is not after q2 in the order by book, then chapter, then question number, the
\* label deciding where a number is missing
InSequence(q1, q2) ==
  LET p1 == parseRefId(q1.refId, q1.source_file)
      p2 == parseRefId(q2.refId, q2.source_file)
  IN  /\ localeCompare(p1.book, p2.book) <= 0
      /\ localeCompare(p1.book, p2.book) = 0 =>
           /\ localeCompare(p1.chapter, p2.chapter) <= 0
           /\ localeCompare(p1.chapter, p2.chapter) = 0 =>
                IF p1.question # 0 /\ p2.question # 0
                  THEN p1.question <= p2.question
                  ELSE localeCompare(p1.qLabel, p2.qLabel) <= 0

Sequential(questions) ==
  \A i \in 1..Len(questions), j \in 1..Len(questions) :
    i < j => InSequence(questions[i], questions[j])

\* C18: while no dataset is built, getBooksAndChapters and getDomainStats return an
\* empty list and getAvailableQuestionCount and getAbsoluteTotalCount return 0, none
\* of them raising, and getQuestions, alone among them, throws
C18_EmptyBeforeDataset ==
  ~db.open =>
    /\ fnPc \in { "getBooksAndChapters", "getDomainStats" } =>
         ( ~fnOut.thrown /\ fnOut.value = <<>> )
    /\ fnPc \in { "getAvailableQuestionCount", "getAbsoluteTotalCount" } =>
         ( ~fnOut.thrown /\ fnOut.count = 0 )
    /\ fnPc = "getQuestions" => fnOut.thrown

C18_Witness ==
  ~db.open /\ fnPc = "getQuestions" /\ fnOut.thrown

\* C19: what getQuestions returns for a book scope is in sequence ( no question is
\* followed, next or later, by one that belongs before it by book, chapter and
\* question number or label ) and holds only questions whose parsed book is one of
\* the books asked for and whose parsed chapter is one of the chapters asked for,
\* every chapter being asked for with "All"
C19_BookScopeSequential ==
  ( fnPc = "getQuestions" /\ activeBooks(fnIn) # <<>> /\ ~fnOut.thrown ) =>
    /\ Sequential(fnOut.value)
    /\ \A i \in 1..Len(fnOut.value) :
         LET parsed == parseRefId(fnOut.value[i].refId, fnOut.value[i].source_file)
         IN  /\ parsed.book \in Range(activeBooks(fnIn))
             /\ \/ <<"A","l","l">> \in Range(activeChapters(fnIn))
                \/ parsed.chapter \in Range(activeChapters(fnIn))

\* C20: the question list of a Journey session started in Book Companion mode is in
\* sequence by book, chapter and question number
C20_JourneySequential ==
  ( fnPc = "handleStartMarathon" /\ fnIn.isBookMode /\ fnOut.session.sessionType = "MARATHON" ) =>
    Sequential(fnOut.session.quizQuestions)

----------------------------------------------------------------------------
(* QuizInterface: the quiz screen as a state machine.  fnIn holds the props, *)
(* fnOut the state of the screen and of the App that owns the answers.       *)

Null == << "null" >>
NoConfidence == "none"
ConfidenceLevels == { "low", "medium", "high" }
\* the levels the user clicks
ClickedLevels == { "low", "high" }

startsWith(s, p) == Len(s) >= Len(p) /\ SubSeq(s, 1, Len(p)) = p

QSingle == [ id |-> 1, question_text |-> <<"P","i","c","k"," ","t","h","e"," ","c","o","l","o","u","r","s">>, correct_answer |-> <<"A">>,
             choices |-> FourChoices ]
ThreeChoices == << << <<"A">>, <<"r","e","d">> >>, << <<"B">>, <<"g","r","e","e","n">> >>, << <<"C">>, <<"b","l","u","e">> >> >>
QMulti == [ id |-> 2, question_text |-> <<"P","i","c","k"," ","t","h","e"," ","c","o","l","o","u","r","s">>, correct_answer |-> <<"A",",","C">>,
            choices |-> ThreeChoices ]
QMatch == [ id |-> 3, question_text |-> <<"[","M","a","t","c","h","]"," ","m">>, correct_answer |-> <<"A",",","1","\n"," ","C",",","2">>,
            choices |-> EnumeratedChoices ]
\* one left item whose right identifier names two choice cells
QMatchWide == [ id |-> 4, question_text |-> <<"[","M","a","t","c","h","]"," ","m">>, correct_answer |-> <<"A",",","1">>,
                choices |-> PrefixedChoices ]

\* the sessions explored: two questions with feedback, one question in each mode
QuizSessions ==
  { [ questions |-> << QSingle, QMatchWide >>, mode |-> "FULL_VIEW", enableConfidence |-> e,
      allowBackNavigation |-> TRUE ] : e \in BOOLEAN } \cup
  { [ questions |-> << QMatch >>, mode |-> m, enableConfidence |-> e,
      allowBackNavigation |-> FALSE ] : m \in { "BLIND", "FULL_VIEW" }, e \in BOOLEAN } \cup
  { [ questions |-> << QMulti >>, mode |-> "BLIND", enableConfidence |-> TRUE,
      allowBackNavigation |-> FALSE ] }

\* const currentQuestion = questions[currentIndex]
currentQuestion(s) == fnIn.questions[s.currentIndex + 1]

\* the screen renders while the quiz is on and the index names a question
Rendered(s) == s.appState = "QUIZ" /\ s.currentIndex < Len(fnIn.questions)

UserAnswer(question, selectedOption, isCorrect, confidence, isSkipped, isErrorFlagged) ==
  [ questionId |-> question.id, selectedOption |-> selectedOption, isCorrect |-> isCorrect,
    confidence |-> confidence, isSkipped |-> isSkipped, isErrorFlagged |-> isErrorFlagged ]

\* prev => [...prev.filter(a => a.questionId !== currentQuestion.id), answer]
WithAnswer(prev, answer) ==
  Append(SelectSeq(prev, LAMBDA a : a.questionId # answer.questionId), answer)

\* setUserAnswers with the updater above; recorded keeps what the updaters built
setUserAnswers(s, answer) ==
  [ s EXCEPT !.userAnswers = WithAnswer(s.userAnswers, answer),
             !.recorded = WithAnswer(s.recorded, answer) ]

\* !selectedOption is false for every array, the empty one included
Truthy(o) == o.kind = "array" \/ (o.kind = "string" /\ o.value[1] # <<>>)
isNoSelection(o) == ~Truthy(o) \/ (o.kind = "array" /\ o.value = <<>>)
isNoSelectionDisabled(s) ==
  isNoSelection(s.selectedOption) \/ (fnIn.enableConfidence /\ s.confidence = NoConfidence)

\* App.handleFinishQuiz
handleFinishQuiz(s, answers) == [ s EXCEPT !.userAnswers = answers, !.appState = "SUMMARY" ]

\* handleNext of the render that saw currentIndex and userAnswers
handleNext(s, currentIndex, userAnswers) ==
  IF currentIndex < Len(fnIn.questions) - 1
    THEN [ s EXCEPT !.currentIndex = s.currentIndex + 1 ]
    ELSE handleFinishQuiz(s, userAnswers)

\* the effect on [currentIndex, currentQuestion, userAnswers]
restoreEffect(s) ==
  LET existing == SelectSeq(s.userAnswers, LAMBDA a : a.questionId = currentQuestion(s).id)
  IN  IF existing # <<>>
        THEN [ s EXCEPT !.selectedOption = existing[1].selectedOption,
                        !.confidence = existing[1].confidence,
                        !.isSubmitted = TRUE ]
        ELSE [ s EXCEPT !.selectedOption = IF isMatch(currentQuestion(s).question_text)
                                             THEN ArrayOption(<<>>) ELSE NullOption,
                        !.confidence = NoConfidence,
                        !.isSubmitted = FALSE,
                        !.activeMatchLeft = Null ]

\* what the key listener closes over besides its dependencies
Closure(s) == [ confidence |-> s.confidence, userAnswers |-> s.userAnswers ]
\* the dependencies of the key listener effect
KeyDeps(s) == << s.isSubmitted, s.selectedOption, s.currentIndex, s.showFlagModal >>

\* the renders that follow an event: s0 before the event, s1 after its state
\* updates.  The restore effect runs when its dependencies changed
Restored(s0, s1) ==
  IF Rendered(s1) /\ (s1.currentIndex # s0.currentIndex \/ s1.userAnswers # s0.userAnswers)
    THEN restoreEffect(s1)
    ELSE s1

\* the key listener is bound again in a render whose dependencies changed; s2 is
\* the state after the restore effect ( newArray: the event made a new array
\* object of equal content )
Rebound(s0, s1, s2, newArray) ==
  IF ~Rendered(s1) THEN s1
  ELSE IF KeyDeps(s2) # KeyDeps(s1) \/ (s1.currentIndex # s0.currentIndex /\ s2.selectedOption.kind = "array")
    THEN [ s2 EXCEPT !.kb = Closure(s2) ]
  ELSE IF KeyDeps(s1) # KeyDeps(s0) \/ newArray
    THEN [ s2 EXCEPT !.kb = Closure(s1) ]
  ELSE s2

\* the state after mounting with the first question
Mounted ==
  LET s == [ appState |-> "QUIZ", userAnswers |-> <<>>, recorded |-> <<>>, currentIndex |-> 0,
             selectedOption |-> IF isMatch(fnIn.questions[1].question_text)
                                  THEN ArrayOption(<<>>) ELSE NullOption,
             activeMatchLeft |-> Null, confidence |-> NoConfidence, isSubmitted |-> FALSE,
             showFlagModal |-> FALSE, flagReason |-> <<>>,
             kb |-> [ confidence |-> NoConfidence, userAnswers |-> <<>> ],
             timers |-> <<>> ]
  IN  s

InitQuiz ==
  /\ MergeInit
  /\ fnIn \in QuizSessions
  /\ fnOut = Mounted
  /\ fnPc = "mounted"

\* an event leaves the merge protocol alone
QuizEvent(s1, newArray, name) ==
  /\ \E t1 \in { s1 } : \E t2 \in { Restored(fnOut, t1) } : fnOut' = Rebound(fnOut, t1, t2, newArray)
  /\ fnPc' = name
  /\ UNCHANGED <<fnIn, calls, sources, promise, wpc, worker, msg, db, dbAtCall>>

\* controls of the page answer while no modal covers them
Clickable == Rendered(fnOut) /\ ~fnOut.showFlagModal
Frozen == fnOut.isSubmitted /\ fnIn.mode = "FULL_VIEW"

\* if (isSubmitted && mode === 'FULL_VIEW') return; match questions have no options
handleOptionSelect(s, key) ==
  IF Frozen \/ isMatch(currentQuestion(s).question_text) THEN s
  ELSE IF isMultiSelect(currentQuestion(s))
    THEN LET current == IF s.selectedOption.kind = "array" THEN s.selectedOption.value ELSE <<>>
         IN  [ s EXCEPT !.selectedOption =
                 ArrayOption(IF key \in Range(current)
                               THEN SelectSeq(current, LAMBDA k : k # key)
                               ELSE Append(current, key)) ]
  ELSE [ s EXCEPT !.selectedOption = StringOption(key) ]

\* a click on an option, or its digit key
ClickOption ==
  /\ Clickable
  /\ ~isMatch(currentQuestion(fnOut).question_text)
  /\ \E key \in Range(KeysOf(currentQuestion(fnOut).choices)) :
       QuizEvent(handleOptionSelect(fnOut, key), FALSE, "handleOptionSelect")

ClickMatchLeft ==
  /\ Clickable
  /\ isMatch(currentQuestion(fnOut).question_text)
  /\ ~Frozen
  /\ \E item \in Range(parseMatchConfiguration(currentQuestion(fnOut)).leftItems) :
       QuizEvent([ fnOut EXCEPT !.activeMatchLeft = item ], FALSE, "handleMatchLeftClick")

\* the new link replaces every link of the active left item
handleMatchRightClick(s, choiceKey) ==
  LET current == IF s.selectedOption.kind = "array" THEN s.selectedOption.value ELSE <<>>
      filtered == SelectSeq(current, LAMBDA l : ~startsWith(l, s.activeMatchLeft \o <<"|","|">>))
  IN  [ s EXCEPT !.selectedOption = ArrayOption(Append(filtered, Link(s.activeMatchLeft, choiceKey))),
                 !.activeMatchLeft = Null ]

\* the right buttons are disabled while no left item is active
ClickMatchRight ==
  /\ Clickable
  /\ isMatch(currentQuestion(fnOut).question_text)
  /\ ~Frozen
  /\ fnOut.activeMatchLeft \notin { Null, <<>> }
  /\ \E key \in Range(parseMatchConfiguration(currentQuestion(fnOut)).rightChoices) :
       QuizEvent(handleMatchRightClick(fnOut, key), TRUE, "handleMatchRightClick")

ClickMatchDisconnect ==
  /\ Clickable
  /\ isMatch(currentQuestion(fnOut).question_text)
  /\ ~Frozen
  /\ fnOut.selectedOption.kind = "array"
  /\ \E link \in Range(fnOut.selectedOption.value) :
       QuizEvent([ fnOut EXCEPT !.selectedOption =
                     ArrayOption(SelectSeq(fnOut.selectedOption.value, LAMBDA l : l # link)) ],
                 FALSE, "handleMatchDisconnect")

ClickConfidence ==
  /\ Clickable
  /\ fnIn.enableConfidence
  /\ ~Frozen
  /\ \E level \in ClickedLevels :
       QuizEvent([ fnOut EXCEPT !.confidence = level ], FALSE, "handleConfidenceChange")

\* submitAnswer of a render that saw this confidence and these answers; in BLIND
\* mode the handleNext of the same render is put on a timer
submitAnswer(s, confidence, userAnswers) ==
  IF ~Truthy(s.selectedOption) THEN s
  ELSE LET answer == UserAnswer(currentQuestion(s), s.selectedOption,
                                checkAnswerCorrectness(currentQuestion(s), s.selectedOption),
                                IF fnIn.enableConfidence
                                  THEN (IF confidence = NoConfidence THEN "low" ELSE confidence)
                                  ELSE NoConfidence,
                                FALSE, FALSE)
           s1 == [ setUserAnswers(s, answer) EXCEPT !.isSubmitted = TRUE ]
       IN  IF fnIn.mode = "BLIND"
             THEN [ s1 EXCEPT !.timers = Append(s.timers, [ currentIndex |-> s.currentIndex,
                                                            userAnswers |-> userAnswers ]) ]
             ELSE s1

\* the render whose submitAnswer runs: the Commit Selection button calls the
\* current one, the key listener the one it was bound in
SubmitClosure(via) == IF via = "click" THEN Closure(fnOut) ELSE fnOut.kb

\* the Commit Selection button ( disabled={isNoSelectionDisabled} ), and
\* if (e.key === 'Enter' && !isSubmitted && selectedOption) submitAnswer()
Submit ==
  /\ Clickable
  /\ ~fnOut.isSubmitted
  /\ \E via \in { "click", "key" } :
       /\ via = "click" => ~isNoSelectionDisabled(fnOut)
       /\ via = "key" => Truthy(fnOut.selectedOption)
       /\ QuizEvent(submitAnswer(fnOut, SubmitClosure(via).confidence, SubmitClosure(via).userAnswers),
                    FALSE, via)

\* setTimeout(handleNext, 150) comes due
TimerFires ==
  /\ fnOut.timers # <<>>
  /\ QuizEvent(handleNext([ fnOut EXCEPT !.timers = Tail(fnOut.timers) ],
                          fnOut.timers[1].currentIndex, fnOut.timers[1].userAnswers),
               FALSE, "timer:handleNext")

\* the Proceed / Finish Session button
ClickNext ==
  /\ Clickable
  /\ fnOut.isSubmitted
  /\ QuizEvent(handleNext(fnOut, fnOut.currentIndex, fnOut.userAnswers), FALSE, "click:handleNext")

\* ArrowRight ( after submission, or at any time in BLIND mode ) and Space
KeyNext ==
  /\ Rendered(fnOut)
  /\ ~fnOut.showFlagModal
  /\ fnOut.isSubmitted \/ fnIn.mode = "BLIND"
  /\ QuizEvent(handleNext(fnOut, fnOut.currentIndex, fnOut.kb.userAnswers), FALSE, "key:handleNext")

handlePrev(s) == IF s.currentIndex > 0 THEN [ s EXCEPT !.currentIndex = s.currentIndex - 1 ] ELSE s

\* the Previous button and ArrowLeft
GoPrev ==
  /\ Clickable
  /\ fnIn.allowBackNavigation
  /\ fnOut.currentIndex > 0
  /\ QuizEvent(handlePrev(fnOut), FALSE, "handlePrev")

\* an entry of the jump list
JumpTo ==
  /\ Clickable
  /\ \E index \in 0..(Len(fnIn.questions) - 1) :
       /\ index # fnOut.currentIndex
       /\ QuizEvent([ fnOut EXCEPT !.currentIndex = index ], FALSE, "handleJumpTo")

handleSkip(s) ==
  handleNext(setUserAnswers(s, UserAnswer(currentQuestion(s), NullOption, FALSE, NoConfidence, TRUE, FALSE)),
             s.currentIndex, s.userAnswers)

ClickSkip ==
  /\ Clickable
  /\ ~fnOut.isSubmitted
  /\ QuizEvent(handleSkip(fnOut), FALSE, "handleSkip")

\* the report button opens the modal, the text area takes a reason, Cancel closes
OpenFlagModal ==
  /\ Clickable
  /\ QuizEvent([ fnOut EXCEPT !.showFlagModal = TRUE ], FALSE, "setShowFlagModal")

TypeFlagReason ==
  /\ Rendered(fnOut)
  /\ fnOut.showFlagModal
  /\ \E reason \in { <<"t","y","p","o">> } :
       /\ reason # fnOut.flagReason
       /\ QuizEvent([ fnOut EXCEPT !.flagReason = reason ], FALSE, "setFlagReason")

CancelFlag ==
  /\ Rendered(fnOut)
  /\ fnOut.showFlagModal
  /\ QuizEvent([ fnOut EXCEPT !.showFlagModal = FALSE ], FALSE, "cancelFlag")

handleFlagQuestion(s) ==
  IF trim(s.flagReason) = <<>> THEN s
  ELSE LET newAnswer == UserAnswer(currentQuestion(s),
                                   IF Truthy(s.selectedOption) THEN s.selectedOption ELSE NullOption,
                                   FALSE, NoConfidence, FALSE, TRUE)
       IN  handleNext([ setUserAnswers(s, newAnswer) EXCEPT !.showFlagModal = FALSE, !.flagReason = <<>> ],
                      s.currentIndex, s.userAnswers)

SubmitFlag ==
  /\ Rendered(fnOut)
  /\ fnOut.showFlagModal
  /\ QuizEvent(handleFlagQuestion(fnOut), FALSE, "handleFlagQuestion")

NextQuiz ==
  \/ ClickOption
  \/ ClickMatchLeft
  \/ ClickMatchRight
  \/ ClickMatchDisconnect
  \/ ClickConfidence
  \/ Submit
  \/ TimerFires
  \/ ClickNext
  \/ KeyNext
  \/ GoPrev
  \/ JumpTo
  \/ ClickSkip
  \/ OpenFlagModal
  \/ TypeFlagReason
  \/ CancelFlag
  \/ SubmitFlag

SpecQuiz == InitQuiz /\ [][NextQuiz]_vars

----------------------------------------------------------------------------
(* Properties of the quiz screen *)

\* the event recorded a submitted answer ( neither skipped nor flagged )
SubmittedNow == fnPc' \in { "click", "key" } /\ fnOut'.recorded # fnOut.recorded

\* C21: with confidence grading enabled, every event that records a submitted
\* answer, the button or the Enter key, finds a confidence level selected for the
\* question
C21_SubmitNeedsConfidence ==
  [][ (fnIn.enableConfidence /\ SubmittedNow) => fnOut.confidence # NoConfidence ]_vars

\* C25: when the session has finished, the answer list the summary receives holds
\* the answer recorded for every question that was submitted, skipped or flagged
C25_SummaryHasEveryAnswer ==
  fnOut.appState = "SUMMARY" => \A a \in Range(fnOut.recorded) : a \in Range(fnOut.userAnswers)

\* the link arrays one more click can make of the arrays in `from`: a right choice
\* clicked while a left item is active, or a link disconnected
OneMoreClick(config, from) ==
  from \cup
  { handleMatchRightClick([ selectedOption |-> ArrayOption(a), activeMatchLeft |-> item ], key).selectedOption.value :
      a \in from, item \in Range(config.leftItems), key \in Range(config.rightChoices) } \cup
  UNION { { SelectSeq(a, LAMBDA l : l # link) : link \in Range(a) } : a \in from }

\* every link array some sequence of clicks makes, starting from `from`
RECURSIVE ClickSelections(_, _)
ClickSelections(config, from) ==
  IF OneMoreClick(config, from) = from THEN from
  ELSE ClickSelections(config, OneMoreClick(config, from))

\* C26: the matching question on the screen, if its configuration is valid, has a
\* sequence of left and right clicks whose links are graded correct
C26_ValidMatchAnswerable ==
  (Rendered(fnOut) /\ isMatch(currentQuestion(fnOut).question_text)
     /\ parseMatchConfiguration(currentQuestion(fnOut)).isValid)
  => \E a \in ClickSelections(parseMatchConfiguration(currentQuestion(fnOut)), { <<>> }) :
       checkAnswerCorrectness(currentQuestion(fnOut), ArrayOption(a))

----------------------------------------------------------------------------
(* App and persistenceService: the session in the page, and what IndexedDB   *)
(* keeps of it.  fnOut.app is the React state of App, fnOut.idb the stores.  *)

\* two of the three slots
SlotIds == { 1, 2 }

NullConfig ==
  [ present |-> FALSE, book |-> <<>>, books |-> <<>>, marathonBookMode |-> FALSE, questionCount |-> 0 ]
PracticeConfig ==
  [ present |-> TRUE, book |-> <<>>, books |-> <<>>, marathonBookMode |-> FALSE, questionCount |-> 2 ]
BookConfig ==
  [ present |-> TRUE, book |-> <<>>, books |-> << <<"b">> >>, marathonBookMode |-> FALSE, questionCount |-> 2 ]
JourneyConfig(isBookMode) ==
  [ present |-> TRUE, book |-> <<>>, books |-> <<>>, marathonBookMode |-> isBookMode, questionCount |-> 2 ]

\* the question lists getQuestions hands to a session, by id
QuestionLists == { << 2, 1 >> }

\* the useState initial values of App
FreshApp ==
  [ isHydrating |-> TRUE, appState |-> "CONFIG", quizConfig |-> NullConfig, userAnswers |-> <<>>,
    quizQuestions |-> <<>>, currentQuestionIndex |-> 0, totalQuestionsInDb |-> 0,
    sessionType |-> "STANDARD", isOBEMode |-> FALSE, activeTab |-> "practice" ]

\* const session: PersistedSession = { appState, quizConfig, ... }
PersistedSession(app) ==
  [ appState |-> app.appState, quizConfig |-> app.quizConfig, userAnswers |-> app.userAnswers,
    quizQuestions |-> app.quizQuestions, currentQuestionIndex |-> app.currentQuestionIndex,
    totalQuestionsInDb |-> app.totalQuestionsInDb, sessionType |-> app.sessionType,
    isOBEMode |-> app.isOBEMode ]

\* a value of an object store: absent, or the stored object
Absent == [ present |-> FALSE, session |-> PersistedSession(FreshApp) ]
Kept(session) == [ present |-> TRUE, session |-> session ]

\* persistenceService.saveToSlot: the slot data put under slotId
saveToSlot(slotId, session) ==
  [ present |-> TRUE,
    session |-> session,
    meta |-> [ id |-> slotId, type |-> session.sessionType,
               label |-> IF session.sessionType = "MARATHON" THEN "Journey Mode"
                         ELSE IF session.quizConfig.books # <<>> \/ session.quizConfig.book # <<>>
                           THEN "Book Companion" ELSE "Practice Session",
               progress |-> [ current |-> session.currentQuestionIndex,
                              total |-> Len(session.quizQuestions) ] ] ]
EmptySlot == [ saveToSlot(0, PersistedSession(FreshApp)) EXCEPT !.present = FALSE ]

\* persistenceService.getSlot: request.result || null
getSlot(idb, slotId) == idb.slots[slotId]

NoStores ==
  [ manual |-> FALSE, library |-> FALSE, session |-> Absent, slots |-> [ k \in SlotIds |-> EmptySlot ] ]

InitSession ==
  /\ MergeInit
  /\ fnIn = <<>>
  /\ fnOut = [ app |-> FreshApp, idb |-> NoStores, atSave |-> [ k \in SlotIds |-> Absent ],
               atClose |-> Absent ]
  /\ fnPc = "load"

\* an App handler: new React state and new stores
AppEvent(app, idb, name) ==
  /\ fnOut' = [ fnOut EXCEPT !.app = app, !.idb = idb, !.atClose = Absent ]
  /\ fnPc' = name
  /\ UNCHANGED <<fnIn, calls, sources, promise, wpc, worker, msg, db, dbAtCall>>

\* the tabs of the configuration screen and the quiz are there once hydration ended
Shown(appState) == ~fnOut.app.isHydrating /\ fnOut.app.appState = appState

\* the rows of the user's database, as getAbsoluteTotalCount counts them
TotalRows == Len(<< 1, 2 >>)

\* what hydrate sets from a stored session
restoreSession(app, session) ==
  [ app EXCEPT !.appState = session.appState,
               !.quizConfig = session.quizConfig,
               !.userAnswers = session.userAnswers,
               !.quizQuestions = session.quizQuestions,
               !.currentQuestionIndex = session.currentQuestionIndex,
               !.totalQuestionsInDb = session.totalQuestionsInDb,
               !.sessionType = session.sessionType,
               !.isOBEMode = session.isOBEMode ]

\* useEffect(() => { hydrate() }, []): the stored session is read only when the
\* library holds the item 'user_manual_upload'
hydrate(app, idb) ==
  IF idb.manual
    THEN IF idb.session.present
           THEN [ restoreSession(app, idb.session.session) EXCEPT
                    !.activeTab = IF idb.session.session.isOBEMode THEN "book" ELSE "practice",
                    !.isHydrating = FALSE ]
           ELSE [ app EXCEPT !.totalQuestionsInDb = TotalRows, !.appState = "CONFIG",
                             !.sessionType = "STANDARD", !.isHydrating = FALSE ]
    ELSE [ app EXCEPT !.totalQuestionsInDb = 0, !.appState = "CONFIG", !.sessionType = "STANDARD",
                      !.activeTab = "practice", !.isOBEMode = FALSE, !.isHydrating = FALSE ]

Hydrate ==
  /\ fnOut.app.isHydrating
  /\ fnOut' = [ fnOut EXCEPT !.app = hydrate(fnOut.app, fnOut.idb) ]
  /\ fnPc' = "hydrate"
  /\ UNCHANGED <<fnIn, calls, sources, promise, wpc, worker, msg, db, dbAtCall>>

\* the auto-save effect: persistenceService.saveSession(session) has written
AutoSave ==
  /\ ~fnOut.app.isHydrating
  /\ fnOut.app.appState # "UPLOAD"
  /\ fnOut.idb.session # Kept(PersistedSession(fnOut.app))
  /\ AppEvent(fnOut.app, [ fnOut.idb EXCEPT !.session = Kept(PersistedSession(fnOut.app)) ], "saveSession")

\* handleUploadSuccess: saveManualUpload, then the merge of the one file
UploadManual ==
  /\ Shown("CONFIG")
  /\ AppEvent([ fnOut.app EXCEPT !.totalQuestionsInDb = TotalRows, !.appState = "CONFIG",
                                 !.sessionType = "STANDARD", !.isOBEMode = FALSE,
                                 !.activeTab = "practice" ],
              [ fnOut.idb EXCEPT !.manual = TRUE ], "handleUploadSuccess")

\* Book Companion tab: a source of the remote library is downloaded and kept
\* ( persistenceService.addToLibrary, under a generated id )
AddLibrarySource ==
  /\ Shown("CONFIG")
  /\ ~fnOut.idb.library
  /\ AppEvent([ fnOut.app EXCEPT !.activeTab = "book" ],
              [ fnOut.idb EXCEPT !.library = TRUE ], "addToLibrary")

startSession(app, config, questions, sessionType) ==
  [ app EXCEPT !.quizQuestions = questions, !.quizConfig = config, !.userAnswers = <<>>,
               !.currentQuestionIndex = 0, !.sessionType = sessionType, !.appState = "QUIZ" ]

\* handleStartQuiz from the practice tab ( the user's database ) or from the Book
\* Companion tab ( the selected library sources ); handleStartMarathon likewise
StartSession ==
  /\ Shown("CONFIG")
  /\ \E questions \in QuestionLists, book \in BOOLEAN, journey \in BOOLEAN :
       /\ IF book THEN fnOut.idb.library \/ fnOut.idb.manual ELSE fnOut.idb.manual
       /\ AppEvent(startSession([ fnOut.app EXCEPT !.activeTab = IF book THEN "book" ELSE "practice" ],
                                IF journey THEN JourneyConfig(book)
                                ELSE IF book THEN BookConfig ELSE PracticeConfig,
                                questions,
                                IF journey THEN "MARATHON" ELSE "STANDARD"),
                   fnOut.idb, "handleStartQuiz")

\* the quiz screen records an answer for the current question and moves on
AnswerQuestion ==
  /\ Shown("QUIZ")
  /\ fnOut.app.currentQuestionIndex < Len(fnOut.app.quizQuestions) - 1
  /\ AppEvent([ fnOut.app EXCEPT
                  !.userAnswers = Append(@, fnOut.app.quizQuestions[fnOut.app.currentQuestionIndex + 1]),
                  !.currentQuestionIndex = @ + 1 ],
              fnOut.idb, "answer")

\* handleFinishQuiz after the last question
FinishQuiz ==
  /\ Shown("QUIZ")
  /\ fnOut.app.currentQuestionIndex = Len(fnOut.app.quizQuestions) - 1
  /\ AppEvent([ fnOut.app EXCEPT
                  !.userAnswers = Append(@, fnOut.app.quizQuestions[fnOut.app.currentQuestionIndex + 1]),
                  !.appState = "SUMMARY" ],
              fnOut.idb, "handleFinishQuiz")

\* handleRestart: clearSession and back to the configuration
Restart ==
  /\ Shown("SUMMARY")
  /\ AppEvent([ fnOut.app EXCEPT !.appState = "CONFIG", !.sessionType = "STANDARD", !.userAnswers = <<>>,
                                 !.quizQuestions = <<>>, !.currentQuestionIndex = 0 ],
              [ fnOut.idb EXCEPT !.session = Absent ], "handleRestart")

\* handleSaveToSlot: the running session goes to the slot, the active session is
\* cleared and the page returns to the configuration
handleSaveToSlot(app) ==
  [ app EXCEPT !.appState = "CONFIG",
               !.activeTab = IF app.sessionType = "MARATHON"
                               THEN (IF app.isOBEMode \/ app.quizConfig.marathonBookMode
                                       THEN "book" ELSE "practice")
                             ELSE IF app.quizConfig.book # <<>> THEN "book" ELSE "practice",
               !.userAnswers = <<>>, !.quizQuestions = <<>>, !.currentQuestionIndex = 0 ]

SaveToSlot ==
  /\ Shown("QUIZ")
  /\ \E slotId \in SlotIds :
       /\ fnOut' = [ fnOut EXCEPT
                       !.app = handleSaveToSlot(fnOut.app),
                       !.atClose = Absent,
                       !.idb = [ fnOut.idb EXCEPT
                                   !.slots[slotId] = saveToSlot(slotId, PersistedSession(fnOut.app)),
                                   !.session = Absent ],
                       !.atSave[slotId] = Kept(PersistedSession(fnOut.app)) ]
       /\ fnIn' = slotId
       /\ fnPc' = "handleSaveToSlot"
  /\ UNCHANGED <<calls, sources, promise, wpc, worker, msg, db, dbAtCall>>

\* handleLoadSlot that starts the loaded session over
handleLoadSlotFromStart(app, result) ==
  IF result.present
    THEN [ restoreSession(app, result.session) EXCEPT !.currentQuestionIndex = 0 ]
    ELSE app

\* handleLoadSlot: if (result && result.session) the state is set from it
handleLoadSlot(app, result) ==
  IF result.present
    THEN [ restoreSession(app, result.session) EXCEPT
             !.activeTab = IF result.session.isOBEMode \/ result.session.quizConfig.marathonBookMode
                              \/ result.session.quizConfig.book # <<>>
                             THEN "book" ELSE "practice" ]
    ELSE app

LoadSlot ==
  /\ Shown("CONFIG")
  /\ \E slotId \in SlotIds :
       /\ fnOut' = [ fnOut EXCEPT !.app = handleLoadSlot(fnOut.app, getSlot(fnOut.idb, slotId)),
                                  !.atClose = Absent ]
       /\ fnIn' = slotId
       /\ fnPc' = "handleLoadSlot"
  /\ UNCHANGED <<calls, sources, promise, wpc, worker, msg, db, dbAtCall>>

\* handleClearSlot
ClearSlot ==
  /\ Shown("CONFIG")
  /\ \E slotId \in SlotIds :
       /\ fnOut.idb.slots[slotId].present
       /\ fnOut' = [ fnOut EXCEPT !.idb.slots[slotId] = EmptySlot, !.atSave[slotId] = Absent,
                                  !.atClose = Absent ]
       /\ fnIn' = slotId
       /\ fnPc' = "handleClearSlot"
  /\ UNCHANGED <<calls, sources, promise, wpc, worker, msg, db, dbAtCall>>

\* the tab is closed and the page opened again: the React state is gone, the
\* stores stay.  atClose notes the active session if the auto-save had written it
ReloadPage ==
  /\ ~fnOut.app.isHydrating
  /\ fnOut' = [ fnOut EXCEPT
                  !.app = FreshApp,
                  !.atClose = IF fnOut.app.appState = "QUIZ"
                                 /\ fnOut.idb.session = Kept(PersistedSession(fnOut.app))
                                THEN fnOut.idb.session ELSE Absent ]
  /\ fnPc' = "load"
  /\ UNCHANGED <<fnIn, calls, sources, promise, wpc, worker, msg, db, dbAtCall>>

NextSession ==
  \/ Hydrate
  \/ AutoSave
  \/ UploadManual
  \/ AddLibrarySource
  \/ StartSession
  \/ AnswerQuestion
  \/ FinishQuiz
  \/ Restart
  \/ SaveToSlot
  \/ LoadSlot
  \/ ClearSlot
  \/ ReloadPage

SpecSession == InitSession /\ [][NextSession]_vars

\* the fields the two restore claims name
SameSession(app, session) ==
  /\ app.appState = session.appState
  /\ app.quizConfig = session.quizConfig
  /\ app.quizQuestions = session.quizQuestions
  /\ app.userAnswers = session.userAnswers
  /\ app.currentQuestionIndex = session.currentQuestionIndex

\* C22: after handleLoadSlot of a slot that holds a saved session, app state, quiz
\* config, question list, answers, current index and session type are those of
\* the moment handleSaveToSlot stored it
C22_SlotRoundTrip ==
  (fnPc = "handleLoadSlot" /\ fnOut.atSave[fnIn].present)
  => /\ SameSession(fnOut.app, fnOut.atSave[fnIn].session)
     /\ fnOut.app.sessionType = fnOut.atSave[fnIn].session.sessionType

\* a journey session saved at its second question has been loaded
C22_Witness ==
  /\ fnPc = "handleLoadSlot"
  /\ fnOut.atSave[fnIn].present
  /\ fnOut.atSave[fnIn].session.currentQuestionIndex = 1
  /\ fnOut.atSave[fnIn].session.sessionType = "MARATHON"
  /\ fnOut.app.appState = "QUIZ"

\* C23: after hydration, if the tab was closed on an auto-saved active session,
\* app state, quiz config, questions, answers and current index are that session's
C23_HydrationRestores ==
  (fnPc = "hydrate" /\ fnOut.atClose.present) => SameSession(fnOut.app, fnOut.atClose.session)

----------------------------------------------------------------------------
(* The locator of the quiz screen next to parseRefId *)

\* QuizInterface.bookReference of a question handed out by getQuestions
bookReference(question) ==
  LET refId == IF question.refId = Undefined THEN <<>> ELSE question.refId
      parts == SplitRef(refId, <<>>, <<>>)
  IN  IF Len(parts) >= 3
        THEN [ book |-> parts[1], chapter |-> parts[2], question |-> JoinDots(parts, 3) ]
      ELSE IF Len(parts) = 2
        THEN [ book |-> parts[1], chapter |-> <<"G","e","n","e","r","a","l">>, question |-> parts[2] ]
      ELSE [ book |-> IF question.sourceFile # <<>> /\ question.sourceFile # Undefined
                        THEN StripDbExtension(question.sourceFile)
                        ELSE <<"U","n","c","a","t","e","g","o","r","i","z","e","d">>,
             chapter |-> IF question.chapter # <<>> /\ question.chapter # Undefined
                           THEN question.chapter ELSE <<"A","l","l">>,
             question |-> IF Len(parts) >= 1 THEN parts[1] ELSE <<"0">> ]

\* the stored reference ids: ingestion trims them ( short ones are enough here )
StoredRefIds == { normalize(r) : r \in { x \in RefIds : x = Undefined \/ Len(x) <= MaxRef - 2 } }

\* the chapter column of a stored row
ChapterCells == { <<>>, <<"3">>, <<"I","n","t","r","o">> }

InitLocator ==
  /\ MergeInit
  /\ fnIn \in { [ refId |-> r, sourceFile |-> f, chapter |-> c ] :
                  r \in StoredRefIds, f \in SourceNames, c \in ChapterCells }
  /\ fnOut = <<>>
  /\ fnPc = "idle"

\* the question is put on the screen; the query layer parses the same question
ApplyBookReference ==
  /\ fnPc = "idle"
  /\ fnOut' = [ shown |-> bookReference(fnIn), parsed |-> parseRefId(fnIn.refId, fnIn.sourceFile) ]
  /\ fnPc' = "bookReference"
  /\ UNCHANGED <<fnIn, calls, sources, promise, wpc, worker, msg, db, dbAtCall>>

NextLocator == ApplyBookReference

SpecLocator == InitLocator /\ [][NextLocator]_vars

\* C24: for every question the locator of the quiz screen and parseRefId give the
\* same book, chapter and question label
C24_SameLocator ==
  fnPc = "bookReference" =>
    /\ fnOut.shown.book = fnOut.parsed.book
    /\ fnOut.shown.chapter = fnOut.parsed.chapter
    /\ fnOut.shown.question = fnOut.parsed.qLabel

----------------------------------------------------------------------------
(* Properties of ingestion and of the queries, continued *)

\* C27: the count of a SUCCESS message is the number of rows of the dataset the
\* message carries
C27_CountIsPublishedRows ==
  \A c \in Calls : Succeeded(c) => msg[c].count = Len(msg[c].bytes)

----------------------------------------------------------------------------
(* One ingested row: the answer key against the choice columns *)

\* the names three choice columns can have
ChoiceColumnStyles ==
  { << <<"1">>, <<"2">>, <<"3">> >>, << <<"A">>, <<"B">>, <<"C">> >>, << <<"c","h","o","i","c","e","_","a">>, <<"c","h","o","i","c","e","_","b">>, <<"c","h","o","i","c","e","_","c">> >>,
    << <<"C","h","o","i","c","e"," ","1">>, <<"C","h","o","i","c","e"," ","2">>, <<"C","h","o","i","c","e"," ","3">> >>, << <<"a">>, <<"2">>, <<"c","h","o","i","c","e"," ","c">> >> }

\* the cells of a choice column: empty or not
ChoiceCells == { <<>>, <<"x">> }

\* raw answer keys: choices named by letter or by number, single or separated by
\* commas, and a run of letters
NamingAnswers ==
  { <<"3">>, <<"C">>, <<"c">>, <<"1">>, <<"2",".">>, <<"A","n","s","w","e","r",":"," ","2">>, <<"1",",","3">>, <<"1",","," ","2">>, <<"3",",","1">>, <<"a",",","c">>, <<"A",","," ","C">>, <<"B",",","C">>,
    <<"1",",","2",",","3">>, <<"A","C">> }

KeyRows ==
  { [ cols |-> << <<"Q","u","e","s","t","i","o","n">>, <<"A","n","s","w","e","r">> >> \o style,
      row |-> << <<"q">>, raw, c1, c2, c3 >> ] :
      style \in ChoiceColumnStyles, raw \in NamingAnswers,
      c1 \in ChoiceCells, c2 \in ChoiceCells, c3 \in ChoiceCells }

InitAnswerKey ==
  /\ MergeInit
  /\ fnIn \in KeyRows
  /\ fnOut = <<>>
  /\ fnPc = "idle"

\* the loop body of the ingestion for one row: cleanAnswer on the answer cell, the
\* choices from the choice columns, and the row as getQuestions hands it to the grader
IngestRow ==
  /\ fnPc = "idle"
  /\ fnOut' = [ question_text |-> normalize(rowData(fnIn.cols, fnIn.row, qTextCol(fnIn.cols))),
                correct_answer |-> cleanAnswer(rowData(fnIn.cols, fnIn.row, ansCol(fnIn.cols))),
                choices |-> RowChoices(fnIn.cols, fnIn.row) ]
  /\ fnPc' = "stored"
  /\ UNCHANGED <<fnIn, calls, sources, promise, wpc, worker, msg, db, dbAtCall>>

NextAnswerKey == IngestRow

SpecAnswerKey == InitAnswerKey /\ [][NextAnswerKey]_vars

\* the pieces of a raw answer key between its commas, trimmed
KeyTokens(raw) ==
  LET pieces == SplitOn(raw, ",", <<>>)
  IN  [ i \in 1..Len(pieces) |-> trim(pieces[i]) ]

\* token names the choice stored under key: the letter in either case, or its number
NamesKey(token, key) ==
  \/ Len(token) = 1 /\ << UpperChar(token[1]) >> = key
  \/ \E n \in 1..9 : token = Numeral(n) /\ key = << Uppers[n] >>

\* the raw answer key is one or more names, each of a non-empty choice column
NamesChoices(raw, choices) ==
  LET tokens == KeyTokens(raw)
  IN  \A i \in 1..Len(tokens) : \E k \in 1..Len(choices) : NamesKey(tokens[i], choices[k][1])

\* what a user can submit on the choices: one key, or some keys in some order
Submissions(choices) ==
  LET keys == Range(KeysOf(choices))
  IN  { StringOption(k) : k \in keys } \cup
      { ArrayOption(<< a >>) : a \in keys } \cup
      { ArrayOption(<< a, b >>) : a \in keys, b \in keys } \cup
      { ArrayOption(<< a, b, c >>) : a \in keys, b \in keys, c \in keys }

\* C28: a stored non-matching question whose raw answer key names non-empty choice
\* columns has every key of its correct answer among the keys of its choices, and
\* some submission of choice keys is graded correct
C28_AnswerKeysAreChoiceKeys ==
  ( fnPc = "stored" /\ NamesChoices(fnIn.row[2], fnOut.choices) ) =>
    /\ \A k \in Range(correctOptions(fnOut)) : k \in Range(KeysOf(fnOut.choices))
    /\ \E sel \in Submissions(fnOut.choices) : checkAnswerCorrectness(fnOut, sel)

----------------------------------------------------------------------------
(* The book list against the book scope, and the multi filter against the grader *)

\* a stored row as getQuestions maps it, with the object its choices_json parses to
ShelfRow(id, refId, file, text, answer, choices) ==
  [ id |-> id, refId |-> refId, source_file |-> file, question_text |-> text,
    correct_answer |-> answer, domain |-> << >>, choices |-> choices ]

ShelfPool ==
  << ShelfRow(<<"b","_","1">>, <<"b","_","1","_","2">>, <<"b",".","d","b">>, <<"q">>, <<"A">>, FourChoices),
     ShelfRow(<<"b","_","2">>, <<"b","_","1","_","1","0">>, <<"b",".","d","b">>, <<"q">>, <<"A",",","C">>, FourChoices),
     ShelfRow(<<"c","_","1">>, <<"_","b","_","1","_","3">>, <<"c",".","d","b">>, <<"q">>, <<"A","C">>, FourChoices),
     ShelfRow(<<"c","_","2">>, <<"b","_","2","_","1","a">>, <<"c",".","d","b">>, <<"[","M","a","t","c","h","]"," ","m">>, <<"A",",","1">>, EnumeratedChoices),
     ShelfRow(<<"c","_","3">>, <<"7">>, <<"c",".","d","b">>, <<"q"," ","[","m","u","l","t","i","]">>, <<"B">>, FourChoices),
     ShelfRow(<<"c","_","4">>, <<"c",".","1",".","b">>, <<"c",".","d","b">>, <<"q">>, <<"A","X">>, FourChoices) >>

RECURSIVE ShelfRowsAt(_)
ShelfRowsAt(S) ==
  IF S = {} THEN <<>> ELSE << ShelfPool[SetMin(S)] >> \o ShelfRowsAt(S \ { SetMin(S) })

Shelves ==
  UNION { { OpenDataset(ShelfRowsAt(S), 1), OpenDataset(Reversed(ShelfRowsAt(S)), 1) } :
          S \in { T \in SUBSET (1..Len(ShelfPool)) : T # {} /\ Cardinality(T) <= MaxRows } }

InitShelf ==
  /\ calls = 0
  /\ sources = [c \in Calls |-> <<>>]
  /\ promise = [c \in Calls |-> [state |-> "none", value |-> 0]]
  /\ wpc = [c \in Calls |-> "none"]
  /\ worker = [c \in Calls |-> NewWorker]
  /\ msg = [c \in Calls |-> NoMsg]
  /\ db \in Shelves
  /\ dbAtCall = [c \in Calls |-> NullDb]
  /\ FnIdle

\* getQuestions for one pair of the list getBooksAndChapters returns, the pair given
\* as book and chapter or as the lists books and chapters, the count being that of
\* the whole dataset
OpenChapter ==
  /\ fnPc = "idle"
  /\ \E listed \in Range(getBooksAndChapters(db)) :
       \E chapter \in Range(listed.chapters), asLists \in BOOLEAN :
         /\ fnIn' = IF asLists
                      THEN [ NoFilters EXCEPT !.count = Len(db.questions), !.sortRefId = TRUE,
                                              !.books = << listed.book >>, !.chapters = << chapter >> ]
                      ELSE [ NoFilters EXCEPT !.count = Len(db.questions),
                                              !.book = listed.book, !.chapter = chapter ]
         /\ fnOut' \in getQuestions(db, fnIn')
  /\ fnPc' = "openChapter"
  /\ UNCHANGED <<calls, sources, promise, wpc, worker, msg, db, dbAtCall>>

NextShelf ==
  \/ OpenChapter
  \/ CallGetQuestions
  \/ CallGetAvailableQuestionCount

SpecShelf == InitShelf /\ [][NextShelf]_vars

\* C29: getQuestions, called with a pair that getBooksAndChapters lists and the
\* count of the dataset, returns every stored question whose parsed book and chapter
\* are the pair, and so at least one question
C29_ListedPairQueryable ==
  fnPc = "openChapter" =>
    /\ ~fnOut.thrown
    /\ \A i \in 1..Len(db.questions) :
         LET parsed == parseRefId(db.questions[i].refId, db.questions[i].source_file)
         IN  ( parsed.book = activeBooks(fnIn)[1] /\ parsed.chapter = activeChapters(fnIn)[1] ) =>
               db.questions[i] \in Range(fnOut.value)
    /\ fnOut.value # <<>>

\* the arguments ask for the multi type and nothing else, with room for every row
OnlyMulti(args) ==
  args = [ NoFilters EXCEPT !.questionType = "multi" ]

\* C30: the multi type of getQuestions and of getAvailableQuestionCount selects
\* exactly the stored questions isMultiSelect classifies as multi-select
C30_MultiFilterIsGrader ==
  LET multi == { i \in 1..Len(db.questions) : isMultiSelect(db.questions[i]) }
  IN  /\ ( fnPc = "getQuestions" /\ OnlyMulti(fnIn) ) =>
           /\ ~fnOut.thrown
           /\ Range(fnOut.value) = { db.questions[i] : i \in multi }
      /\ ( fnPc = "getAvailableQuestionCount" /\ OnlyMulti(fnIn) ) =>
           fnOut.count = Cardinality(multi)
====
